---- MODULE Spec2Model ----
(***************************************************************************)
(* dwdown: filename filtering (FileHandler) and the transfer engines of    *)
(* ForecastDownloader, HistoricalDownloader, MOSMIX_Downloader,            *)
(* OSDownloader and OSUploader.                                            *)
(*                                                                         *)
(* Spec       : the transfer engines.  An instance of one downloader /     *)
(*              uploader class is constructed (Init) and download() /      *)
(*              upload() is called on it, and then called a second time.   *)
(* FilterSpec : the pure filename filters, applied to bounded inputs.      *)
(***************************************************************************)
EXTENDS Integers, Sequences, FiniteSets, TLC

\* ------------------------------------------------------------------ bounds
MaxLinks == 2      \* number of distinct remote items
MaxRetry == 1      \* largest value of the constructor argument retry
MaxJobs  == 2      \* largest value of the constructor argument n_jobs
MaxFiles == 2      \* longest filename list passed to a filter

VARIABLES
    variant,            \* which class the instance is
    retry,              \* self._retry
    n_jobs,             \* self._n_jobs
    pc,                 \* position of the caller's thread in download()/upload()
    runNo,              \* number of calls of download()/upload() started
    raised,             \* the current/last call raised to its caller
    cfe,                \* argument check_for_existence of the current call
    links,              \* download_links / the filtered selection
    work,               \* items submitted to the pool (files_to_download/upload)
    task,               \* state of each submitted future
    dest,               \* destination copy of each item: absent / good / bad
    downloaded_files,   \* downloaded_files (uploaded_files for OSUploader)
    failed_files,       \* failed_files
    corrupted_files,    \* corrupted_files
    retryQ,             \* ForecastDownloader: rest of the copy failed_files[:]
    retry_count,        \* retry_count of the link being retried
    seqi,               \* Historical/MOSMIX: index of the link being processed
    seqPhase,           \* Historical/MOSMIX: "first" attempt or "retry" loop
    hist,               \* per item: results of its attempts in this call
    xfers,              \* per item: network transfer calls in this call
    skipped,            \* items skipped as already present in this call
    startDest,          \* dest at the start of the current call
    fin,                \* filter input: the filename list
    farg,               \* filter arguments
    fout,               \* filter result
    fop                 \* filter applied: "none", "simple", "advanced"

xvars == <<variant, retry, n_jobs, pc, runNo, raised, cfe, links, work, task,
           dest, downloaded_files, failed_files, corrupted_files,
           retryQ, retry_count, seqi, seqPhase, hist, xfers, skipped,
           startDest>>
fvars == <<fin, farg, fout, fop>>
vars  == <<xvars, fvars>>

Items        == 1..MaxLinks
HttpVariants == {"forecast", "historical", "mosmix"}
SeqVariants  == {"historical", "mosmix"}
OSVariants   == {"osdown", "osup"}
Variants     == HttpVariants \cup OSVariants
HttpOutcomes == {"ok", "neterr", "partial", "oserr"}
OSOutcomes   == {"ok", "mismatch", "exc"}

\* ------------------------------------------------------------ result lists
\* The result lists (downloaded_files, failed_files, corrupted_files) are kept
\* up to the order of their entries, which depends on thread timing only:
\* a list is the function item |-> number of occurrences of the item.
EmptyList == [i \in Items |-> 0]

\* list.append(x)
ListAppend(l, x) == [l EXCEPT ![x] = @ + 1]

\* list.remove(x): removes one occurrence
ListRemove(l, x) == [l EXCEPT ![x] = @ - 1]

\* x in list
InList(l, x) == l[x] > 0

\* the items occurring in the list
ListSet(l) == {i \in Items : l[i] > 0}

\* len(list)
RECURSIVE ListLenUpTo(_, _)
ListLenUpTo(l, n) == IF n = 0 THEN 0 ELSE l[n] + ListLenUpTo(l, n - 1)

ListLen(l) == ListLenUpTo(l, MaxLinks)

\* list[:] : the entries of the list, one per occurrence
RECURSIVE ListCopyFrom(_, _)
ListCopyFrom(l, n) ==
    IF n > MaxLinks THEN <<>>
    ELSE [k \in 1..l[n] |-> n] \o ListCopyFrom(l, n + 1)

ListCopy(l) == ListCopyFrom(l, 1)

\* the items of a sequence
SeqSet(s) == {s[k] : k \in 1..Len(s)}

\* ------------------------------------------------- one call of a transfer
\* Each operator gives the effect of one call of _download_file/_upload_file
\* on item i under the outcome out of its network/file operations:
\*   ret  : "true" / "false" (the returned bool) or "raise" (exception leaves)
\*   dst  : the destination copy afterwards
\*   xfer : number of network transfer calls made (GET, fget_object, fput_object)
\*   skip : the item was skipped as already present
\*   corr : the worker itself appended the item to corrupted_files

\* _verify_file_integrity with the remote hash supplied: the md5 of the local
\* file equals the ETag; a failure to compute the md5 yields False
VerifyFileIntegrity(d) == d = "good"

\* ForecastDownloader/HistoricalDownloader/MOSMIX_Downloader._download_file
HttpDownloadFile(i, c, out) ==
    IF c /\ dest[i] # "absent"
    THEN [ret |-> "true", dst |-> dest[i], xfer |-> 0, skip |-> TRUE,
          corr |-> FALSE]
    ELSE CASE out = "ok" ->
                [ret |-> "true", dst |-> "good", xfer |-> 1, skip |-> FALSE,
                 corr |-> FALSE]
           [] out = "neterr" ->       \* RequestException before open()
                [ret |-> "false", dst |-> dest[i], xfer |-> 1, skip |-> FALSE,
                 corr |-> FALSE]
           [] out = "partial" ->      \* RequestException while streaming
                [ret |-> "false", dst |-> "bad", xfer |-> 1, skip |-> FALSE,
                 corr |-> FALSE]
           [] OTHER ->                \* "oserr": open() fails, OSError leaves
                [ret |-> "raise", dst |-> dest[i], xfer |-> 1, skip |-> FALSE,
                 corr |-> FALSE]

\* a worker that reports a transferred file without verifying its digest
OSDownloadFileUnverified(i, c, out) ==
    IF c /\ dest[i] # "absent" /\ VerifyFileIntegrity(dest[i])
    THEN [ret |-> "true", dst |-> dest[i], xfer |-> 0, skip |-> TRUE,
          corr |-> FALSE]
    ELSE CASE out = "ok" ->
                [ret |-> "true", dst |-> "good", xfer |-> 1, skip |-> FALSE,
                 corr |-> FALSE]
           [] out = "mismatch" ->
                [ret |-> "true", dst |-> "bad", xfer |-> 1, skip |-> FALSE,
                 corr |-> FALSE]
           [] OTHER ->
                [ret |-> "false", dst |-> dest[i], xfer |-> 1, skip |-> FALSE,
                 corr |-> TRUE]

\* OSDownloader._download_file
OSDownloadFile(i, c, out) ==
    IF c /\ dest[i] # "absent" /\ VerifyFileIntegrity(dest[i])
    THEN [ret |-> "true", dst |-> dest[i], xfer |-> 0, skip |-> TRUE,
          corr |-> FALSE]
    ELSE CASE out = "ok" ->
                [ret |-> "true", dst |-> "good", xfer |-> 1, skip |-> FALSE,
                 corr |-> FALSE]
           [] out = "mismatch" ->     \* transferred, digest differs
                [ret |-> "false", dst |-> "bad", xfer |-> 1, skip |-> FALSE,
                 corr |-> TRUE]
           [] OTHER ->                \* "exc": fget_object raises
                [ret |-> "false", dst |-> dest[i], xfer |-> 1, skip |-> FALSE,
                 corr |-> TRUE]

\* OSUploader._upload_file (the existence check inside it is commented out)
OSUploadFile(i, c, out) ==
    CASE out = "ok" ->
            [ret |-> "true", dst |-> "good", xfer |-> 1, skip |-> FALSE,
             corr |-> FALSE]
      [] out = "mismatch" ->          \* stat_object ETag differs from the md5
            [ret |-> "false", dst |-> "bad", xfer |-> 1, skip |-> FALSE,
             corr |-> TRUE]
      [] OTHER ->                     \* "exc": fput_object/stat_object raises
            [ret |-> "false", dst |-> dest[i], xfer |-> 1, skip |-> FALSE,
             corr |-> TRUE]

\* a skip test that trusts the presence of the local file
BuildDownloadSkipIfExists(i) == dest[i] # "absent"

\* a work list that never skips
BuildDownloadSkipNever(i) == FALSE

\* OSDownloader._build_download_list: skip test of one selected item
BuildDownloadSkip(i) ==
    dest[i] # "absent" /\ VerifyFileIntegrity(dest[i])

\* OSUploader._build_upload_list: skip test of one selected item; the remote
\* listing is empty unless check_for_existence is set
BuildUploadSkip(i, c) ==
    c /\ dest[i] # "absent" /\ VerifyFileIntegrity(dest[i])

\* bookkeeping of one attempt on item i with effect e
Attempt(i, e) ==
    /\ dest' = [dest EXCEPT ![i] = e.dst]
    /\ hist' = [hist EXCEPT ![i] = Append(@, e.ret = "true")]
    /\ xfers' = [xfers EXCEPT ![i] = @ + e.xfer]
    /\ skipped' = IF e.skip THEN skipped \cup {i} ELSE skipped

\* entry of download()/upload(): per-call observation state
BeginCall(c) ==
    /\ pc \in {"idle", "done"}
    /\ runNo \in {0, 1}          \* the first call and a second call
    /\ runNo' = runNo + 1
    /\ cfe' = c
    /\ hist' = [i \in Items |-> <<>>]
    /\ xfers' = [i \in Items |-> 0]
    /\ startDest' = dest
    /\ retryQ' = <<>>
    /\ retry_count' = 0

\* ---------------------------------------------------------------- Init
Init ==
    /\ variant \in Variants
    /\ retry \in (IF variant \in OSVariants THEN {0, MaxRetry} ELSE 0..MaxRetry)
    /\ n_jobs \in (IF variant \in SeqVariants THEN {1} ELSE {1, MaxJobs})
    /\ pc = "idle"
    /\ runNo = 0
    /\ raised = FALSE
    /\ cfe = FALSE
    /\ links \in {[k \in 1..n |-> k] : n \in 0..MaxLinks}
    /\ work = <<>>
    /\ task = <<>>
    /\ dest \in {d \in [Items -> {"absent", "good", "bad"}] :
                    \A i \in Items : i > Len(links) => d[i] = "absent"}
    /\ downloaded_files = EmptyList
    /\ failed_files = EmptyList
    /\ corrupted_files = EmptyList
    /\ retryQ = <<>>
    /\ retry_count = 0
    /\ seqi = 0
    /\ seqPhase = "first"
    /\ hist = [i \in Items |-> <<>>]
    /\ xfers = [i \in Items |-> 0]
    /\ skipped = {}
    /\ startDest = dest
    /\ fin = <<>>
    /\ farg = <<>>
    /\ fout = <<>>
    /\ fop = "none"

\* ------------------------------------------------ ForecastDownloader
\* download() that treats an empty download_links as an error
ForecastDownloadRaiseOnEmpty(c) ==
    /\ variant = "forecast"
    /\ BeginCall(c)
    /\ raised' = (links = <<>>)
    /\ skipped' = {}
    /\ IF links = <<>>
       THEN /\ pc' = "done"
            /\ UNCHANGED <<work, task>>
       ELSE /\ pc' = "inflight"
            /\ work' = links
            /\ task' = [k \in 1..Len(links) |-> "pending"]
    /\ UNCHANGED <<variant, retry, n_jobs, links, dest, downloaded_files,
                   failed_files, corrupted_files, seqi, seqPhase, fvars>>

\* download(): entry, empty-links return, submission of every link
ForecastDownload(c) ==
    /\ variant = "forecast"
    /\ BeginCall(c)
    /\ raised' = FALSE
    /\ skipped' = {}
    /\ IF links = <<>>
       THEN /\ pc' = "done"
            /\ UNCHANGED <<work, task>>
       ELSE /\ pc' = "inflight"
            /\ work' = links
            /\ task' = [k \in 1..Len(links) |-> "pending"]
    /\ UNCHANGED <<variant, retry, n_jobs, links, dest, downloaded_files,
                   failed_files, corrupted_files, seqi, seqPhase, fvars>>

\* a pool that starts a thread for every queued task
PoolStartUnbounded(k) ==
    /\ pc = "inflight"
    /\ k \in 1..Len(task)
    /\ task[k] = "pending"
    /\ \A j \in 1..(k - 1) : task[j] # "pending"
    /\ task' = [task EXCEPT ![k] = "running"]
    /\ UNCHANGED <<variant, retry, n_jobs, pc, runNo, raised, cfe, links, work,
                   dest, downloaded_files, failed_files,
                   corrupted_files, retryQ, retry_count, seqi, seqPhase, hist,
                   xfers, skipped, startDest, fvars>>

\* ThreadPoolExecutor(max_workers=n_jobs): a free worker takes the oldest
\* queued task
PoolStart(k) ==
    /\ pc = "inflight"
    /\ k \in 1..Len(task)
    /\ task[k] = "pending"
    /\ \A j \in 1..(k - 1) : task[j] # "pending"
    /\ Cardinality({j \in 1..Len(task) : task[j] = "running"}) < n_jobs
    /\ task' = [task EXCEPT ![k] = "running"]
    /\ UNCHANGED <<variant, retry, n_jobs, pc, runNo, raised, cfe, links, work,
                   dest, downloaded_files, failed_files,
                   corrupted_files, retryQ, retry_count, seqi, seqPhase, hist,
                   xfers, skipped, startDest, fvars>>

\* a worker thread runs _download_file / _upload_file to its end
PoolWorker(k, out) ==
    /\ pc = "inflight"
    /\ k \in 1..Len(task)
    /\ task[k] = "running"
    /\ out \in (IF variant \in OSVariants THEN OSOutcomes ELSE HttpOutcomes)
    /\ LET i == work[k]
           e == CASE variant = "osdown" -> OSDownloadFile(i, cfe, out)
                  [] variant = "osup"   -> OSUploadFile(i, cfe, out)
                  [] OTHER              -> HttpDownloadFile(i, cfe, out)
       IN  /\ Attempt(i, e)
           /\ task' = [task EXCEPT ![k] = e.ret]
           /\ corrupted_files' = IF e.corr THEN ListAppend(corrupted_files, i)
                                 ELSE corrupted_files
    /\ UNCHANGED <<variant, retry, n_jobs, pc, runNo, raised, cfe, links, work,
                   downloaded_files, failed_files, retryQ,
                   retry_count, seqi, seqPhase, startDest, fvars>>

\* a collector that only logs a future that raised
ForecastCollectLogOnly(k) ==
    /\ variant = "forecast"
    /\ pc = "inflight"
    /\ k \in 1..Len(task)
    /\ task[k] \in {"true", "false", "raise"}
    /\ task' = [task EXCEPT ![k] = "recorded"]
    /\ downloaded_files' = IF task[k] = "true"
                           THEN ListAppend(downloaded_files, work[k])
                           ELSE downloaded_files
    /\ failed_files' = IF task[k] = "false"
                       THEN ListAppend(failed_files, work[k])
                       ELSE failed_files
    /\ UNCHANGED <<variant, retry, n_jobs, pc, runNo, raised, cfe, links, work,
                   dest, corrupted_files, retryQ, retry_count,
                   seqi, seqPhase, hist, xfers, skipped, startDest, fvars>>

\* download(): body of "for future in as_completed(futures)"
ForecastCollect(k) ==
    /\ variant = "forecast"
    /\ pc = "inflight"
    /\ k \in 1..Len(task)
    /\ task[k] \in {"true", "false", "raise"}
    /\ task' = [task EXCEPT ![k] = "recorded"]
    /\ IF task[k] = "true"
       THEN /\ downloaded_files' = ListAppend(downloaded_files, work[k])
            /\ UNCHANGED failed_files
       ELSE /\ failed_files' = ListAppend(failed_files, work[k])
            /\ UNCHANGED downloaded_files
    /\ UNCHANGED <<variant, retry, n_jobs, pc, runNo, raised, cfe, links, work,
                   dest, corrupted_files, retryQ, retry_count,
                   seqi, seqPhase, hist, xfers, skipped, startDest, fvars>>

\* a retry pass that starts as soon as one failure has been collected
ForecastJoinEarly ==
    /\ variant = "forecast"
    /\ pc = "inflight"
    /\ IF retry > 0 /\ failed_files # EmptyList
       THEN /\ pc' = "retrying"
            /\ retryQ' = ListCopy(failed_files)
            /\ retry_count' = 0
       ELSE /\ \A k \in 1..Len(task) : task[k] = "recorded"
            /\ pc' = "done"
            /\ UNCHANGED <<retryQ, retry_count>>
    /\ UNCHANGED <<variant, retry, n_jobs, runNo, raised, cfe, links, work,
                   task, dest, downloaded_files, failed_files,
                   corrupted_files, seqi, seqPhase, hist, xfers, skipped,
                   startDest, fvars>>

\* download(): the pool has joined; enter the retry pass or finish
ForecastJoin ==
    /\ variant = "forecast"
    /\ pc = "inflight"
    /\ \A k \in 1..Len(task) : task[k] = "recorded"
    /\ IF retry > 0 /\ failed_files # EmptyList
       THEN /\ pc' = "retrying"
            /\ retryQ' = ListCopy(failed_files)
            /\ retry_count' = 0
       ELSE /\ pc' = "done"
            /\ UNCHANGED <<retryQ, retry_count>>
    /\ UNCHANGED <<variant, retry, n_jobs, runNo, raised, cfe, links, work,
                   task, dest, downloaded_files, failed_files,
                   corrupted_files, seqi, seqPhase, hist, xfers, skipped,
                   startDest, fvars>>

\* a retry loop that appends the recovered link to downloaded_files but
\* leaves it in failed_files
RetryFailedKept(fl, link, r) == fl

\* download(): the lists after one retry of link returned r
\* ("downloaded_files.append(link); failed_files.remove(link)" on success)
RetryDownloaded(dl, link, r) ==
    IF r = "true" THEN ListAppend(dl, link) ELSE dl

RetryFailed(fl, link, r) == IF r = "true" THEN ListRemove(fl, link) ELSE fl

\* download(): one iteration of "while retry_count < self._retry" for the
\* link at the head of the copied failed list
ForecastRetry(out) ==
    /\ variant = "forecast"
    /\ pc = "retrying"
    /\ retryQ # <<>>
    /\ out \in HttpOutcomes
    /\ LET link == Head(retryQ)
           e    == HttpDownloadFile(link, cfe, out)
           next == e.ret = "true" \/ retry_count + 1 >= retry
       IN  /\ Attempt(link, e)
           /\ downloaded_files' = RetryDownloaded(downloaded_files, link, e.ret)
           /\ failed_files' = RetryFailed(failed_files, link, e.ret)
           /\ retry_count' = IF next THEN 0 ELSE retry_count + 1
           /\ retryQ' = IF next THEN Tail(retryQ) ELSE retryQ
           /\ pc' = IF next /\ Tail(retryQ) = <<>> THEN "done" ELSE "retrying"
    /\ UNCHANGED <<variant, retry, n_jobs, runNo, raised, cfe, links, work,
                   task, corrupted_files, seqi, seqPhase,
                   startDest, fvars>>

\* --------------------------------- HistoricalDownloader, MOSMIX_Downloader
\* download(): entry and empty-links return
SeqDownload(c) ==
    /\ variant \in SeqVariants
    /\ BeginCall(c)
    /\ raised' = FALSE
    /\ skipped' = {}
    /\ pc' = IF links = <<>> THEN "done" ELSE "seq"
    /\ seqi' = 1
    /\ seqPhase' = "first"
    /\ UNCHANGED <<variant, retry, n_jobs, links, work, task, dest, 
                   downloaded_files, failed_files, corrupted_files, fvars>>

\* download(): one call of _download_file inside "for link in download_links":
\* the first attempt, or one iteration of the retry loop; an exception leaves
\* the body of the loop for its "except Exception" handler
SeqAttempt(out) ==
    /\ variant \in SeqVariants
    /\ pc = "seq"
    /\ out \in HttpOutcomes
    /\ LET link == links[seqi]
           e    == HttpDownloadFile(link, cfe, out)
           next == IF seqPhase = "first"
                   THEN e.ret # "false" \/ retry = 0
                   ELSE e.ret # "false" \/ retry_count + 1 >= retry
       IN  /\ Attempt(link, e)
           /\ IF seqPhase = "first"
              THEN /\ downloaded_files' =
                        IF e.ret = "true" THEN ListAppend(downloaded_files, link)
                        ELSE downloaded_files
                   /\ failed_files' =
                        IF e.ret = "false"
                           \/ (e.ret = "raise" /\ ~InList(failed_files, link))
                        THEN ListAppend(failed_files, link)
                        ELSE failed_files
                   /\ retry_count' = 0
              ELSE /\ downloaded_files' =
                        RetryDownloaded(downloaded_files, link, e.ret)
                   /\ failed_files' = RetryFailed(failed_files, link, e.ret)
                   /\ retry_count' = IF next THEN 0 ELSE retry_count + 1
           /\ seqPhase' = IF next THEN "first" ELSE "retry"
           /\ seqi' = IF next THEN seqi + 1 ELSE seqi
           /\ pc' = IF next /\ seqi = Len(links) THEN "done" ELSE "seq"
    /\ UNCHANGED <<variant, retry, n_jobs, runNo, raised, cfe, links, work,
                   task, corrupted_files, retryQ, startDest, fvars>>

\* ------------------------------------------------------------ OSDownloader
\* download(): from the filtered selection to the submission of the work list
OSDownload(c) ==
    /\ variant = "osdown"
    /\ BeginCall(c)
    /\ raised' = FALSE
    /\ LET todo == SelectSeq(links, LAMBDA i : ~BuildDownloadSkip(i))
       IN  /\ skipped' = {i \in SeqSet(links) : BuildDownloadSkip(i)}
           /\ IF todo = <<>>
              THEN /\ pc' = "done"
                   /\ UNCHANGED <<work, task>>
              ELSE /\ pc' = "inflight"
                   /\ work' = todo
                   /\ task' = [k \in 1..Len(todo) |-> "pending"]
    /\ UNCHANGED <<variant, retry, n_jobs, links, dest, downloaded_files,
                   failed_files, corrupted_files, seqi, seqPhase, fvars>>

\* -------------------------------------------------------------- OSUploader
\* upload(): md5 of every selected file, _build_upload_list, submission;
\* md5ok: _calculate_md5 succeeds on every selected file
OSUpload(c, md5ok) ==
    /\ variant = "osup"
    /\ BeginCall(c)
    /\ IF links # <<>> /\ ~md5ok
       THEN \* _calculate_md5 raises out of upload()
            /\ raised' = TRUE
            /\ pc' = "done"
            /\ skipped' = {}
            /\ UNCHANGED <<work, task>>
       ELSE LET todo == SelectSeq(links, LAMBDA i : ~BuildUploadSkip(i, c))
            IN  /\ raised' = FALSE
                /\ pc' = "inflight"
                /\ skipped' = {i \in SeqSet(links) : BuildUploadSkip(i, c)}
                /\ work' = todo
                /\ task' = [k \in 1..Len(todo) |-> "pending"]
    /\ UNCHANGED <<variant, retry, n_jobs, links, dest, downloaded_files,
                   failed_files, corrupted_files, seqi, seqPhase, fvars>>

\* download()/upload(): body of "for future in as_completed(futures)"
OSCollect(k) ==
    /\ variant \in OSVariants
    /\ pc = "inflight"
    /\ k \in 1..Len(task)
    /\ task[k] \in {"true", "false", "raise"}
    /\ task' = [task EXCEPT ![k] = "recorded"]
    /\ downloaded_files' = IF task[k] = "true"
                           THEN ListAppend(downloaded_files, work[k])
                           ELSE downloaded_files
    /\ corrupted_files' = IF task[k] = "false"
                          THEN ListAppend(corrupted_files, work[k])
                          ELSE corrupted_files
    /\ UNCHANGED <<variant, retry, n_jobs, pc, runNo, raised, cfe, links, work,
                   dest, failed_files, retryQ, retry_count, seqi,
                   seqPhase, hist, xfers, skipped, startDest, fvars>>

\* download()/upload(): the pool has joined; _log_summary and return
OSJoin ==
    /\ variant \in OSVariants
    /\ pc = "inflight"
    /\ \A k \in 1..Len(task) : task[k] = "recorded"
    /\ pc' = "done"
    /\ UNCHANGED <<variant, retry, n_jobs, runNo, raised, cfe, links, work,
                   task, dest, downloaded_files, failed_files,
                   corrupted_files, retryQ, retry_count, seqi, seqPhase, hist,
                   xfers, skipped, startDest, fvars>>

\* ------------------------------------------- selection between two calls
\* After the first call has returned, the filters of the next call select
\* nothing: get_links() assigns an empty download_links (ForecastDownloader,
\* HistoricalDownloader, MOSMIX_Downloader), or the filters passed to the next
\* OSDownloader.download()/OSUploader.upload() match no listed file. The
\* instance is idle again and keeps its result lists.
SelectNothing ==
    /\ pc = "done"
    /\ runNo = 1
    /\ links # <<>>
    /\ links' = <<>>
    /\ pc' = "idle"
    /\ UNCHANGED <<variant, retry, n_jobs, runNo, raised, cfe, work, task,
                   dest, downloaded_files, failed_files, corrupted_files,
                   retryQ, retry_count, seqi, seqPhase, hist, xfers, skipped,
                   startDest, fvars>>

\* ------------------------------------------------------------------- Spec
Next ==
    \/ \E c \in BOOLEAN : ForecastDownload(c)
    \/ \E k \in 1..MaxLinks : PoolStart(k)
    \/ \E k \in 1..MaxLinks, out \in HttpOutcomes \cup OSOutcomes :
          PoolWorker(k, out)
    \/ \E k \in 1..MaxLinks : ForecastCollect(k)
    \/ ForecastJoin
    \/ \E out \in HttpOutcomes : ForecastRetry(out)
    \/ \E c \in BOOLEAN : SeqDownload(c)
    \/ \E out \in HttpOutcomes : SeqAttempt(out)
    \/ \E c \in BOOLEAN : OSDownload(c)
    \/ \E c \in BOOLEAN, md5ok \in BOOLEAN : OSUpload(c, md5ok)
    \/ \E k \in 1..MaxLinks : OSCollect(k)
    \/ OSJoin
    \/ SelectNothing

Spec == Init /\ [][Next]_vars

\* ============================================================ FileHandler
\* Filenames and patterns are sequences of one-character strings.

\* str.startswith
StartsWith(s, p) == Len(p) <= Len(s) /\ SubSeq(s, 1, Len(p)) = p

\* str.endswith
EndsWith(s, p) ==
    Len(p) <= Len(s) /\ SubSeq(s, Len(s) - Len(p) + 1, Len(s)) = p

\* "p in s" on strings
Contains(s, p) ==
    \E k \in 0..(Len(s) - Len(p)) : SubSeq(s, k + 1, k + Len(p)) = p

\* str.lower on the letters the filenames use
LowerChar(c) ==
    CASE c = "R" -> "r"
      [] c = "T" -> "t"
      [] c = "A" -> "a"
      [] OTHER   -> c

Lower(s) == [k \in 1..Len(s) |-> LowerChar(s[k])]

\* index of the last "/" of s, 0 when there is none
LastSlash(s) ==
    LET at == {k \in 1..Len(s) : s[k] = "/"}
    IN  IF at = {} THEN 0 ELSE CHOOSE k \in at : \A m \in at : m <= k

\* s without its trailing "/" characters
RECURSIVE RStripSlash(_)
RStripSlash(s) ==
    IF s # <<>> /\ s[Len(s)] = "/"
    THEN RStripSlash(SubSeq(s, 1, Len(s) - 1))
    ELSE s

\* os.path.split: <<head, tail>>
PathSplit(p) ==
    LET i    == LastSlash(p)
        head == SubSeq(p, 1, i)
        tail == SubSeq(p, i + 1, Len(p))
    IN  <<IF RStripSlash(head) = <<>> THEN head ELSE RStripSlash(head), tail>>

\* os.path.dirname, os.path.basename
Dirname(p) == PathSplit(p)[1]

Basename(p) == PathSplit(p)[2]

\* str.split("/")
RECURSIVE SplitSlash(_)
SplitSlash(s) ==
    LET at == {k \in 1..Len(s) : s[k] = "/"}
    IN  IF at = {} THEN <<s>>
        ELSE LET i == CHOOSE k \in at : \A m \in at : k <= m
             IN  <<SubSeq(s, 1, i - 1)>> \o SplitSlash(SubSeq(s, i + 1, Len(s)))

\* "/".join
RECURSIVE JoinSlash(_)
JoinSlash(comps) ==
    IF comps = <<>> THEN <<>>
    ELSE IF Len(comps) = 1 THEN comps[1]
    ELSE comps[1] \o <<"/">> \o JoinSlash(Tail(comps))

\* os.path.normpath: the loop over the components of the path
RECURSIVE NormComps(_, _, _)
NormComps(comps, new_comps, initial_slashes) ==
    IF comps = <<>> THEN new_comps
    ELSE LET comp == Head(comps)
             up   == <<".", ".">>
         IN  IF comp = <<>> \/ comp = <<".">>
             THEN NormComps(Tail(comps), new_comps, initial_slashes)
             ELSE IF \/ comp # up
                     \/ (initial_slashes = 0 /\ new_comps = <<>>)
                     \/ (new_comps # <<>> /\ new_comps[Len(new_comps)] = up)
             THEN NormComps(Tail(comps), Append(new_comps, comp),
                            initial_slashes)
             ELSE IF new_comps # <<>>
             THEN NormComps(Tail(comps),
                            SubSeq(new_comps, 1, Len(new_comps) - 1),
                            initial_slashes)
             ELSE NormComps(Tail(comps), new_comps, initial_slashes)

\* os.path.normpath
NormPath(path) ==
    IF path = <<>> THEN <<".">>
    ELSE LET initial_slashes ==
                 IF ~StartsWith(path, <<"/">>) THEN 0
                 ELSE IF StartsWith(path, <<"/", "/">>)
                         /\ ~StartsWith(path, <<"/", "/", "/">>)
                 THEN 2 ELSE 1
             joined == JoinSlash(NormComps(SplitSlash(path), <<>>,
                                           initial_slashes))
             out == [k \in 1..initial_slashes |-> "/"] \o joined
         IN  IF out = <<>> THEN <<".">> ELSE out

IsDigit(c) == c \in {"0", "1", "2", "3", "4", "5", "6", "7", "8", "9"}

DigitVal(c) ==
    CASE c = "0" -> 0 [] c = "1" -> 1 [] c = "2" -> 2 [] c = "3" -> 3
      [] c = "4" -> 4 [] c = "5" -> 5 [] c = "6" -> 6 [] c = "7" -> 7
      [] c = "8" -> 8 [] c = "9" -> 9

\* int() of a string of decimal digits
RECURSIVE ParseInt(_)
ParseInt(ds) ==
    IF ds = <<>> THEN 0
    ELSE ParseInt(SubSeq(ds, 1, Len(ds) - 1)) * 10 + DigitVal(ds[Len(ds)])

\* re.search(rf"_([0-9]+)_{re.escape(variable_folder)}\.", name): the set of
\* <<start, end of group 1>> at which the expression matches
TagMatches(name, variable_folder) ==
    {m \in (1..Len(name)) \X (1..Len(name)) :
        /\ name[m[1]] = "_"
        /\ m[1] < m[2]
        /\ \A k \in (m[1] + 1)..m[2] : IsDigit(name[k])
        /\ StartsWith(SubSeq(name, m[2] + 1, Len(name)),
                      <<"_">> \o variable_folder \o <<".">>)}

\* "match and int(match.group(1)) in tags", for the leftmost match
TagIn(name, variable_folder, tags) ==
    LET ms == TagMatches(name, variable_folder)
    IN  /\ ms # {}
        /\ LET m == CHOOSE x \in ms : \A y \in ms : x[1] <= y[1]
           IN  ParseInt(SubSeq(name, m[1] + 1, m[2])) \in tags

\* Utilities._string_to_list on None, a string or a list
StringToList(obj) ==
    IF obj.kind = "str" THEN <<obj.val>>
    ELSE IF obj.kind = "list" THEN obj.val
    ELSE <<>>

\* FileHandler._switchable_pattern_check
SwitchablePatternCheck(filename, patterns, use_all) ==
    IF use_all
    THEN \A k \in 1..Len(patterns) : Contains(filename, patterns[k])
    ELSE \E k \in 1..Len(patterns) : Contains(filename, patterns[k])

\* FileHandler._mock_time_steps
MockTimeSteps(filename, timesteps, mock_time_steps) ==
    IF mock_time_steps THEN TRUE
    ELSE \E k \in 1..Len(timesteps) : Contains(filename, timesteps[k])

\* _simple_filename_filter: the filenames the checks are applied to
NormalizedFilenames(filenames, norm_path) ==
    IF norm_path THEN [k \in 1..Len(filenames) |-> NormPath(filenames[k])]
    ELSE filenames

\* _simple_filename_filter: the list comprehension
FilteredFilenames(filenames, a) ==
    LET include_pattern == StringToList(a.include_pattern)
        exclude_pattern == StringToList(a.exclude_pattern)
        Keep(filename) ==
            /\ StartsWith(filename, a.prefix)
            /\ EndsWith(filename, a.suffix)
            /\ SwitchablePatternCheck(filename, include_pattern,
                                      a.use_all_for_include)
            /\ MockTimeSteps(filename, a.timesteps, a.mock_time_steps)
            /\ ~\E k \in 1..Len(exclude_pattern) :
                    Contains(filename, exclude_pattern[k])
    IN  SelectSeq(filenames, Keep)

\* a bypass step that compares the category with the entries as given
BypassFilenamesAsGiven(filenames, skip_vars) ==
    LET target_vars == {skip_vars[k] : k \in 1..Len(skip_vars)}
        Bypass(filename) == Lower(Basename(Dirname(filename))) \in target_vars
    IN  SelectSeq(filenames, Bypass)

\* _simple_filename_filter: the files appended for
\* skip_time_step_filtering_variables
BypassFilenames(filenames, skip_vars) ==
    LET target_vars == {Lower(skip_vars[k]) : k \in 1..Len(skip_vars)}
        Bypass(filename) == Lower(Basename(Dirname(filename))) \in target_vars
    IN  SelectSeq(filenames, Bypass)

\* a filter that leaves the filenames as they were passed
SimpleFilenameFilterRaw(filenames, a) ==
    FilteredFilenames(filenames, a)
        \o BypassFilenames(filenames,
                           StringToList(a.skip_time_step_filtering_variables))

\* FileHandler._simple_filename_filter
SimpleFilenameFilter(filenames, a) ==
    LET skip_vars == StringToList(a.skip_time_step_filtering_variables)
        names     == NormalizedFilenames(filenames, a.norm_path)
        filtered  == FilteredFilenames(names, a)
    IN  IF skip_vars # <<>>
        THEN filtered \o BypassFilenames(names, skip_vars)
        ELSE filtered

\* an allowlist compared as it was given
VariablesSetAsGiven(variables) ==
    {variables.val[k] : k \in 1..Len(variables.val)}

\* _advanced_filename_filter: variables_set
VariablesSet(variables) ==
    {Lower(variables.val[k]) : k \in 1..Len(variables.val)}

\* _advanced_filename_filter: patterns_dict, later items replacing earlier
\* ones with the same lower-cased key
PatternsDict(patterns) ==
    LET items == patterns.val
        keys  == {Lower(items[k][1]) : k \in 1..Len(items)}
        last(key) == CHOOSE k \in 1..Len(items) :
                        /\ Lower(items[k][1]) = key
                        /\ \A m \in 1..Len(items) :
                              Lower(items[m][1]) = key => m <= k
    IN  [key \in keys |-> items[last(key)][2]]

\* _advanced_filename_filter: what one iteration of the loop appends
AdvancedKeep(file_path, variables, patterns) ==
    LET variables_set   == VariablesSet(variables)
        patterns_dict   == PatternsDict(patterns)
        has_patterns    == ~patterns.none /\ DOMAIN patterns_dict # {}
        has_variables   == ~variables.none /\ variables_set # {}
        dir_path        == PathSplit(file_path)[1]
        file_name       == PathSplit(file_path)[2]
        variable_folder == Lower(Basename(dir_path))
        tagged ==
            /\ variable_folder \in DOMAIN patterns_dict
            /\ TagIn(Lower(file_name), variable_folder,
                     patterns_dict[variable_folder])
    IN  IF variables.none /\ has_patterns
        THEN (IF tagged THEN <<file_path>> ELSE <<>>) \o <<file_path>>
        ELSE IF patterns.none /\ has_variables
        THEN IF variable_folder \in variables_set
             THEN <<file_path>> ELSE <<>>
        ELSE IF has_patterns /\ has_variables
        THEN IF variable_folder \in variables_set
             THEN IF variable_folder \in DOMAIN patterns_dict
                  THEN IF tagged THEN <<file_path>> ELSE <<>>
                  ELSE <<file_path>>
             ELSE <<>>
        ELSE <<>>

\* _advanced_filename_filter: the loop over filenames
RECURSIVE AdvancedLoop(_, _, _)
AdvancedLoop(filenames, variables, patterns) ==
    IF filenames = <<>> THEN <<>>
    ELSE AdvancedKeep(Head(filenames), variables, patterns)
            \o AdvancedLoop(Tail(filenames), variables, patterns)

\* a filter that applies the allowlist only together with patterns
AdvancedFilenameFilterPatternsOnly(filenames, variables, patterns) ==
    IF patterns.none THEN filenames
    ELSE AdvancedLoop(filenames, variables, patterns)

\* FileHandler._advanced_filename_filter
AdvancedFilenameFilter(filenames, variables, patterns) ==
    IF variables.none /\ patterns.none THEN filenames
    ELSE AdvancedLoop(filenames, variables, patterns)

\* ------------------------------------------------- inputs of the filters
\* filenames: category r tagged 1; tagged 02; upper-case category T; no tag;
\* a path that os.path.normpath rewrites
FilePool ==
    {<<"r", "/", "a", "_", "1", "_", "r", ".", "g">>,
     <<"r", "/", "a", "_", "0", "2", "_", "r", ".", "g">>,
     <<"T", "/", "A", "_", "1", "_", "T", ".", "g">>,
     <<"r", "/", "a", "_", "r", ".", "g">>,
     <<"r", "/", "/", "a", "_", "1", "_", "r", ".", "g">>}

RECURSIVE SeqsUpTo(_, _)
SeqsUpTo(S, n) ==
    IF n = 0 THEN {<<>>}
    ELSE LET shorter == SeqsUpTo(S, n - 1)
         IN  shorter \cup {Append(q, x) : q \in shorter, x \in S}

NoneArg == [kind |-> "none", val |-> <<>>]

StrArg(v) == [kind |-> "str", val |-> v]

ListArg(v) == [kind |-> "list", val |-> v]

\* <<prefix, suffix>>
AffixPool == {<<<<>>, <<>>>>, <<<<"r", "/">>, <<>>>>, <<<<>>, <<"r", ".", "g">>>>}

IncludePool == {NoneArg, StrArg(<<"a", "_">>), ListArg(<<<<"_", "1">>, <<"r", ".">>>>)}

\* <<exclude_pattern, timesteps, mock_time_steps>>
ChecksPool ==
    {<<NoneArg, <<<<"_", "1", "_">>>>, FALSE>>,
     <<ListArg(<<<<"0", "2">>>>), <<<<"_", "1", "_">>, <<"_", "0", "2", "_">>>>, FALSE>>,
     <<NoneArg, <<>>, FALSE>>,
     <<ListArg(<<<<"0", "2">>>>), <<>>, TRUE>>}

SkipPool == {NoneArg, ListArg(<<<<"r">>>>), ListArg(<<<<"T">>>>)}

SimpleArgs ==
    {[prefix |-> af[1], suffix |-> af[2],
      include_pattern |-> inc, exclude_pattern |-> ch[1],
      skip_time_step_filtering_variables |-> sk,
      timesteps |-> ch[2], norm_path |-> np,
      use_all_for_include |-> ua, mock_time_steps |-> ch[3]] :
        af \in AffixPool, inc \in IncludePool, ch \in ChecksPool,
        sk \in SkipPool, np \in BOOLEAN, ua \in BOOLEAN}

VariablesPool ==
    {[none |-> TRUE, val |-> <<>>],
     [none |-> FALSE, val |-> <<>>],
     [none |-> FALSE, val |-> <<<<"r">>>>],
     [none |-> FALSE, val |-> <<<<"R">>, <<"t">>>>]}

PatternsPool ==
    {[none |-> TRUE, val |-> <<>>],
     [none |-> FALSE, val |-> <<>>],
     [none |-> FALSE, val |-> << <<<<"r">>, {1}>> >>],
     [none |-> FALSE, val |-> << <<<<"R">>, {1, 2}>>, <<<<"t">>, {2}>> >>]}

\* ------------------------------------------------------------ FilterSpec
\* one call of a filter on a list of at most MaxFiles filenames
FInit ==
    /\ fin \in SeqsUpTo(FilePool, MaxFiles)
    /\ farg = <<>>
    /\ fout = <<>>
    /\ fop = "none"
    /\ variant = "forecast" /\ retry = 0 /\ n_jobs = 1
    /\ pc = "idle" /\ runNo = 0 /\ raised = FALSE /\ cfe = FALSE
    /\ links = <<>> /\ work = <<>> /\ task = <<>>
    /\ dest = [i \in Items |-> "absent"]
    /\ downloaded_files = EmptyList
    /\ failed_files = EmptyList
    /\ corrupted_files = EmptyList
    /\ retryQ = <<>> /\ retry_count = 0
    /\ seqi = 0 /\ seqPhase = "first"
    /\ hist = [i \in Items |-> <<>>]
    /\ xfers = [i \in Items |-> 0]
    /\ skipped = {}
    /\ startDest = [i \in Items |-> "absent"]

\* a call of FileHandler._simple_filename_filter
SimpleFilter(a) ==
    /\ fop = "none"
    /\ fop' = "simple"
    /\ farg' = a
    /\ fout' = SimpleFilenameFilter(fin, a)
    /\ UNCHANGED <<fin, xvars>>

\* a call of FileHandler._advanced_filename_filter
AdvancedFilter(variables, patterns) ==
    /\ fop = "none"
    /\ fop' = "advanced"
    /\ farg' = [variables |-> variables, patterns |-> patterns]
    /\ fout' = AdvancedFilenameFilter(fin, variables, patterns)
    /\ UNCHANGED <<fin, xvars>>

FNext ==
    \/ \E a \in SimpleArgs : SimpleFilter(a)
    \/ \E variables \in VariablesPool, patterns \in PatternsPool :
          AdvancedFilter(variables, patterns)

FilterSpec == FInit /\ [][FNext]_vars

\* ============================================================== OSHandler
\* digests of file contents; "None" is an omitted argument
Digests == {"d1", "d2"}

\* FileHandler._calculate_md5 of a local file that holds content with digest
\* file or cannot be opened: the digest, or "raise"
CalculateMd5(file) == IF file = "unreadable" THEN "raise" ELSE file

\* client.stat_object(...).etag of a remote key that holds an object with
\* ETag obj or does not exist: the ETag, or "raise"
StatObjectEtag(obj) == IF obj = "missing" THEN "raise" ELSE obj

\* _verify_file_integrity: the try block
VerifyTry(local_md5, remote_hash, file, obj) ==
    LET l == IF local_md5 = "None" THEN CalculateMd5(file) ELSE local_md5
    IN  IF l = "raise" THEN "raise"
        ELSE LET r == IF remote_hash = "None" THEN StatObjectEtag(obj)
                      ELSE remote_hash
             IN  IF r = "raise" THEN "raise"
                 ELSE IF r = l THEN "true" ELSE "false"

\* a verifier without the except clause
VerifyFileIntegrityUncaught(local_md5, remote_hash, file, obj) ==
    LET t == VerifyTry(local_md5, remote_hash, file, obj)
    IN  [ret |-> t = "true", raised |-> t = "raise"]

\* OSHandler._verify_file_integrity: the returned bool, and whether an
\* exception leaves the call
VerifyFileIntegrityCall(local_md5, remote_hash, file, obj) ==
    LET t == VerifyTry(local_md5, remote_hash, file, obj)
    IN  [ret |-> t = "true", raised |-> FALSE]

\* ============================================================ DateHandler
\* A timestep bound is None, an int, a str or a list.
NoneT == [kind |-> "none", val |-> 0]

IntT(v) == [kind |-> "int", val |-> v]

StrT(chars) == [kind |-> "str", val |-> chars]

ListT == [kind |-> "list", val |-> 0]

DefaultMinTimestep == 0

DefaultMaxTimestep == 48

PadWidth == 3

DigitChar(d) == <<"0", "1", "2", "3", "4", "5", "6", "7", "8", "9">>[d + 1]

\* str(n) for n >= 0
RECURSIVE NatStr(_)
NatStr(n) ==
    IF n < 10 THEN <<DigitChar(n)>>
    ELSE NatStr(n \div 10) \o <<DigitChar(n % 10)>>

\* str(t)
IntStr(t) == IF t < 0 THEN <<"-">> \o NatStr(0 - t) ELSE NatStr(t)

\* str.zfill(width): zeros are inserted after a leading sign; a string that
\* is already width long or longer is returned as it is
ZFill(str, width) ==
    IF Len(str) >= width THEN str
    ELSE LET zeros == [k \in 1..(width - Len(str)) |-> "0"]
         IN  IF str # <<>> /\ str[1] \in {"+", "-"}
             THEN <<str[1]>> \o zeros \o Tail(str)
             ELSE zeros \o str

\* f"_{str(t).zfill(3)}_"
TimestepToken(t) == <<"_">> \o ZFill(IntStr(t), PadWidth) \o <<"_">>

\* int(x) for x of kind int, str or list: an optional sign followed by
\* decimal digits is accepted (strings with blanks or underscores are not in
\* the pools); any other string is a ValueError, a list a TypeError
IntOf(x) ==
    IF x.kind = "int" THEN [error |-> "none", val |-> x.val]
    ELSE IF x.kind = "list" THEN [error |-> "TypeError", val |-> 0]
    ELSE LET signed == x.val # <<>> /\ x.val[1] \in {"+", "-"}
             digits == IF signed THEN Tail(x.val) ELSE x.val
             ok     == digits # <<>>
                       /\ \A k \in 1..Len(digits) : IsDigit(digits[k])
         IN  IF ~ok THEN [error |-> "ValueError", val |-> 0]
             ELSE [error |-> "none",
                   val |-> IF signed /\ x.val[1] = "-"
                           THEN 0 - ParseInt(digits) ELSE ParseInt(digits)]

\* range(lo, hi + 1) as a sequence
Range(lo, hi) == [k \in 1..(IF hi >= lo THEN hi - lo + 1 ELSE 0) |-> lo + k - 1]

\* range(lo, hi), the upper bound left out
ProcessTimestepsExclusive(min_timestep, max_timestep) ==
    LET lo == IF min_timestep.kind # "none" THEN IntOf(min_timestep)
              ELSE [error |-> "none", val |-> DefaultMinTimestep]
        hi == IF max_timestep.kind # "none" THEN IntOf(max_timestep)
              ELSE [error |-> "none", val |-> DefaultMaxTimestep]
    IN  IF lo.error # "none" THEN [error |-> lo.error, ret |-> <<>>]
        ELSE IF hi.error # "none" THEN [error |-> hi.error, ret |-> <<>>]
        ELSE [error |-> "none",
              ret |-> LET r == Range(lo.val, hi.val - 1)
                      IN  [k \in 1..Len(r) |-> TimestepToken(r[k])]]

\* DateHandler._process_timesteps(min_timestep, max_timestep)
ProcessTimesteps(min_timestep, max_timestep) ==
    LET lo == IF min_timestep.kind # "none" THEN IntOf(min_timestep)
              ELSE [error |-> "none", val |-> DefaultMinTimestep]
        hi == IF max_timestep.kind # "none" THEN IntOf(max_timestep)
              ELSE [error |-> "none", val |-> DefaultMaxTimestep]
    IN  IF lo.error # "none" THEN [error |-> lo.error, ret |-> <<>>]
        ELSE IF hi.error # "none" THEN [error |-> hi.error, ret |-> <<>>]
        ELSE [error |-> "none",
              ret |-> LET r == Range(lo.val, hi.val)
                      IN  [k \in 1..Len(r) |-> TimestepToken(r[k])]]

\* a call of _process_timesteps with the keyword arguments kw besides the
\* two bounds: the function takes no other parameter
ProcessTimestepsKw(min_timestep, max_timestep, kw) ==
    IF kw # {} THEN [error |-> "TypeError", ret |-> <<>>]
    ELSE ProcessTimesteps(min_timestep, max_timestep)

\* ForecastDownloader.get_links up to the timestep tokens: the directory
\* listing is requested first; an empty listing returns [] at once
GetLinksHead(min_timestep, max_timestep, listing) ==
    LET t == ProcessTimestepsKw(min_timestep, max_timestep, {})
    IN  IF listing = "empty"
        THEN [requests |-> <<"listing">>, error |-> "none"]
        ELSE [requests |-> <<"listing">>, error |-> t.error]

\* OSDownloader.download up to the timestep tokens: bucket check and object
\* listing come first; _process_timesteps is passed include_pattern
OSDownloadHead(min_timestep, max_timestep) ==
    LET t == ProcessTimestepsKw(min_timestep, max_timestep,
                                {"include_pattern"})
    IN  [requests |-> <<"bucket_exists", "list_objects">>, error |-> t.error]

\* ------------------------------------------------------- timestep inputs
MaxSpan == 2      \* largest max - min of an explicit range

LowPool == {0 - 1, 0, 9, 10, 99, 100, 998, 999, 1000}

IntPairs == {<<IntT(lo), IntT(lo + w)>> : lo \in LowPool, w \in (0 - 1)..MaxSpan}

DefaultPairs ==
    {<<NoneT, NoneT>>}
        \cup {<<NoneT, IntT(DefaultMinTimestep + w)>> : w \in (0 - 1)..MaxSpan}
        \cup {<<IntT(DefaultMaxTimestep - w), NoneT>> : w \in (0 - 1)..MaxSpan}

StrPairs ==
    {<<StrT(<<"7">>), StrT(<<"0", "8">>)>>, <<StrT(<<"-", "1">>), IntT(0)>>,
     <<StrT(<<"a">>), IntT(1)>>, <<IntT(0), StrT(<<>>)>>,
     <<NoneT, StrT(<<"1", "a">>)>>, <<ListT, NoneT>>, <<IntT(1), ListT>>}

TimestepPairs == IntPairs \cup DefaultPairs \cup StrPairs

\* ==================================================== HistoricalDownloader
\* the directory the listing was fetched from; it ends with a slash
BaseUrl == <<"u", "/">>

\* urljoin(base, file) for a relative file name without scheme, leading
\* slash or dot segment: the name is put after the directory of the base
UrlJoin(base, file) == base \o file

\* f"_{str(sid).zfill(5)}_" for every station id
StationPatterns(station_ids) ==
    [k \in 1..Len(station_ids) |-> <<"_">> \o ZFill(station_ids[k], 5) \o <<"_">>]

\* the arguments get_links passes to _simple_filename_filter
HistoricalFilterArgs(station_ids, prefix, suffix, include_pattern, exclude_pattern) ==
    [prefix |-> prefix, suffix |-> suffix,
     include_pattern |->
        ListArg(StringToList(include_pattern) \o StationPatterns(station_ids)),
     exclude_pattern |-> ListArg(StringToList(exclude_pattern)),
     skip_time_step_filtering_variables |-> NoneArg,
     timesteps |-> <<>>,              \* None, never read: mock_time_steps
     norm_path |-> TRUE,
     use_all_for_include |-> FALSE,
     mock_time_steps |-> TRUE]

\* HistoricalDownloader.get_links on the listing filenames
HistoricalGetLinks(filenames, station_ids, prefix, suffix, include_pattern, exclude_pattern) ==
    IF filenames = <<>> THEN <<>>
    ELSE LET a == HistoricalFilterArgs(station_ids, prefix, suffix,
                                       include_pattern, exclude_pattern)
             filtered == SimpleFilenameFilter(filenames, a)
         IN  [k \in 1..Len(filtered) |-> UrlJoin(BaseUrl, filtered[k])]

\* listing: two station archives and a description file
ListingPool ==
    {<<"s", "_", "0", "0", "0", "0", "1", "_", "a", ".", "z">>,
     <<"s", "_", "0", "0", "0", "0", "3", "_", "a", ".", "z">>,
     <<"d", ".", "p", "d", "f">>}

StationIdsPool == {<<>>, << <<"1">> >>, << <<"1">>, <<"0", "3">> >>}

\* <<prefix, suffix, include_pattern, exclude_pattern>>
HistoricalArgsPool ==
    {<<pre, suf, inc, exc>> :
        pre \in {<<>>, <<"s">>}, suf \in {<<>>, <<".", "z">>},
        inc \in {NoneArg, ListArg(<< <<"_", "a">> >>)},
        exc \in {NoneArg, ListArg(<< <<"3">> >>)}}

\* =========================================== selection by timestep range
\* The part of a caller that turns a listing, the caller's include patterns
\* and a timestep range into the selected names. prefix is left out by the
\* caller (an instance without model name), suffix is passed.

\* ForecastDownloader.get_links on a non-empty listing, for an instance
\* constructed with url, grid=None and variable=None: the tokens are passed
\* as timesteps, the caller's patterns as include_pattern
ForecastSelect(filenames, suffix, include_pattern, min_timestep, max_timestep) ==
    LET t == ProcessTimestepsKw(min_timestep, max_timestep, {})
        a == [prefix |-> <<>>, suffix |-> suffix,
              include_pattern |-> ListArg(StringToList(include_pattern)),
              exclude_pattern |-> NoneArg,
              skip_time_step_filtering_variables |-> NoneArg,
              timesteps |-> t.ret, norm_path |-> TRUE,
              use_all_for_include |-> TRUE, mock_time_steps |-> FALSE]
        filtered == SimpleFilenameFilter(filenames, a)
        urls == [k \in 1..Len(filtered) |-> UrlJoin(BaseUrl, filtered[k])]
    IN  IF filenames = <<>> THEN [error |-> "none", ret |-> <<>>]
        ELSE IF t.error # "none" THEN [error |-> t.error, ret |-> <<>>]
        ELSE [error |-> "none",
              ret |-> AdvancedFilenameFilter(urls, [none |-> TRUE, val |-> <<>>],
                                             [none |-> TRUE, val |-> <<>>])]

\* OSDownloader.download and OSUploader.upload: the caller's patterns are
\* handed to _process_timesteps as include_pattern, and its result is the
\* include_pattern of the filter
OSSelect(filenames, suffix, include_pattern, min_timestep, max_timestep) ==
    LET t == ProcessTimestepsKw(min_timestep, max_timestep,
                                {"include_pattern"})
    IN  [error |-> t.error, ret |-> <<>>]

\* DWDDownloader._process_timesteps: the tokens extend a list passed as
\* include_pattern and replace anything else
LegacyProcessTimesteps(min_timestep, max_timestep, include_pattern) ==
    LET t == ProcessTimesteps(min_timestep, max_timestep)
    IN  IF t.error # "none" THEN t
        ELSE [error |-> "none",
              ret |-> IF include_pattern.kind = "list"
                      THEN include_pattern.val \o t.ret ELSE t.ret]

\* DWDDownloader._filter_file_names
LegacyFilterFileNames(filenames, name_startswith, name_endswith, include_pattern, exclude_pattern) ==
    LET inc == IF include_pattern = <<>> THEN << <<>> >> ELSE include_pattern
        Keep(filename) ==
            /\ StartsWith(filename, name_startswith)
            /\ EndsWith(filename, name_endswith)
            /\ \E k \in 1..Len(inc) : Contains(filename, inc[k])
            /\ ~\E k \in 1..Len(exclude_pattern) :
                    Contains(filename, exclude_pattern[k])
    IN  SelectSeq(filenames, Keep)

\* DWDDownloader.get_links on a non-empty listing
LegacySelect(filenames, suffix, include_pattern, min_timestep, max_timestep) ==
    LET t == LegacyProcessTimesteps(min_timestep, max_timestep, include_pattern)
        filtered == LegacyFilterFileNames(filenames, <<>>, suffix, t.ret, <<>>)
    IN  IF filenames = <<>> THEN [error |-> "none", ret |-> <<>>]
        ELSE IF t.error # "none" THEN [error |-> t.error, ret |-> <<>>]
        ELSE [error |-> "none",
              ret |-> [k \in 1..Len(filtered) |-> BaseUrl \o filtered[k]]]

Callers == {"ForecastDownloader.get_links", "OSDownloader.download",
            "OSUploader.upload", "DWDDownloader.get_links"}

SelectBy(caller, filenames, suffix, include_pattern, min_timestep, max_timestep) ==
    IF caller = "ForecastDownloader.get_links"
    THEN ForecastSelect(filenames, suffix, include_pattern,
                        min_timestep, max_timestep)
    ELSE IF caller = "DWDDownloader.get_links"
    THEN LegacySelect(filenames, suffix, include_pattern,
                      min_timestep, max_timestep)
    ELSE OSSelect(filenames, suffix, include_pattern,
                  min_timestep, max_timestep)

\* listing: variable a at timesteps 1 and 2, variable b at timestep 1, and a
\* file with another suffix
TimestepListingPool ==
    {<<"a", "_", "0", "0", "1", "_", ".", "g">>,
     <<"a", "_", "0", "0", "2", "_", ".", "g">>,
     <<"b", "_", "0", "0", "1", "_", ".", "g">>,
     <<"a", "_", "0", "0", "1", "_", ".", "x">>}

CallerIncludePool == {NoneArg, ListArg(<< <<"a", "_">> >>)}

RangePool ==
    {<<IntT(1), IntT(1)>>, <<IntT(1), IntT(2)>>, <<NoneT, NoneT>>,
     <<StrT(<<"a">>), IntT(1)>>}

\* -------------------------------------------------------------- UtilSpec
\* one call of a helper on arguments from small pools
UInit ==
    /\ fin = <<>>
    /\ farg = <<>>
    /\ fout = <<>>
    /\ fop = "none"
    /\ variant = "forecast" /\ retry = 0 /\ n_jobs = 1
    /\ pc = "idle" /\ runNo = 0 /\ raised = FALSE /\ cfe = FALSE
    /\ links = <<>> /\ work = <<>> /\ task = <<>>
    /\ dest = [i \in Items |-> "absent"]
    /\ downloaded_files = EmptyList
    /\ failed_files = EmptyList
    /\ corrupted_files = EmptyList
    /\ retryQ = <<>> /\ retry_count = 0
    /\ seqi = 0 /\ seqPhase = "first"
    /\ hist = [i \in Items |-> <<>>]
    /\ xfers = [i \in Items |-> 0]
    /\ skipped = {}
    /\ startDest = [i \in Items |-> "absent"]

\* a call of OSHandler._verify_file_integrity
VerifyIntegrity(local_md5, remote_hash, file, obj) ==
    /\ fop = "none"
    /\ fop' = "verify"
    /\ farg' = [local_md5 |-> local_md5, remote_hash |-> remote_hash,
                file |-> file, obj |-> obj]
    /\ fout' = VerifyFileIntegrityCall(local_md5, remote_hash, file, obj)
    /\ UNCHANGED <<fin, xvars>>

\* a call of DateHandler._process_timesteps
ProcessTimestepsCall(min_timestep, max_timestep) ==
    /\ fop = "none"
    /\ fop' = "timesteps"
    /\ farg' = [min_timestep |-> min_timestep, max_timestep |-> max_timestep]
    /\ fout' = ProcessTimesteps(min_timestep, max_timestep)
    /\ UNCHANGED <<fin, xvars>>

\* a call of ForecastDownloader.get_links, up to the timestep tokens
GetLinks(min_timestep, max_timestep, listing) ==
    /\ fop = "none"
    /\ fop' = "get_links"
    /\ farg' = [min_timestep |-> min_timestep, max_timestep |-> max_timestep,
                listing |-> listing]
    /\ fout' = GetLinksHead(min_timestep, max_timestep, listing)
    /\ UNCHANGED <<fin, xvars>>

\* a call of OSDownloader.download, up to the timestep tokens
OSDownloadEntry(min_timestep, max_timestep) ==
    /\ fop = "none"
    /\ fop' = "os_download"
    /\ farg' = [min_timestep |-> min_timestep, max_timestep |-> max_timestep]
    /\ fout' = OSDownloadHead(min_timestep, max_timestep)
    /\ UNCHANGED <<fin, xvars>>

\* a call of HistoricalDownloader.get_links; download_links is the result
HistoricalLinks(filenames, station_ids, a) ==
    /\ fop = "none"
    /\ fop' = "historical_links"
    /\ farg' = [filenames |-> filenames, station_ids |-> station_ids,
                prefix |-> a[1], suffix |-> a[2],
                include_pattern |-> a[3], exclude_pattern |-> a[4]]
    /\ fout' = HistoricalGetLinks(filenames, station_ids,
                                  a[1], a[2], a[3], a[4])
    /\ UNCHANGED <<fin, xvars>>

\* the selection stage of a caller that takes include patterns and a
\* timestep range
Select(caller, filenames, include_pattern, p) ==
    /\ fop = "none"
    /\ fop' = "select"
    /\ farg' = [caller |-> caller, filenames |-> filenames,
                suffix |-> <<".", "g">>, include_pattern |-> include_pattern,
                min_timestep |-> p[1], max_timestep |-> p[2]]
    /\ fout' = SelectBy(caller, filenames, <<".", "g">>, include_pattern,
                        p[1], p[2])
    /\ UNCHANGED <<fin, xvars>>

\* ------------------------------------------------------------- delete()
\* os.path.join(a, b)
PathJoin(a, b) ==
    IF StartsWith(b, <<"/">>) THEN b
    ELSE IF a = <<>> \/ EndsWith(a, <<"/">>) THEN a \o b
    ELSE a \o <<"/">> \o b

\* ForecastDownloader._download_file: the local path of a link; the empty
\* string stands for a forecast_run / variable that is None or ""
ForecastLocalPath(files_path, forecast_run, variable, link) ==
    LET filename == Basename(link)
    IN  IF forecast_run # <<>> /\ variable # <<>>
        THEN NormPath(PathJoin(PathJoin(PathJoin(files_path, forecast_run),
                                        variable), filename))
        ELSE NormPath(PathJoin(files_path, filename))

\* OSDownloader._build_download_list: the local path of a remote object
OSLocalPath(files_path, remote_path) ==
    NormPath(PathJoin(files_path, remote_path))

\* the items of a sequence that satisfy / do not satisfy ok, in order
ItemsWhere(items, oks, want) ==
    SelectSeq([k \in 1..Len(items) |-> <<items[k], oks[k]>>],
              LAMBDA e : e[2] = want)

\* ForecastDownloader after download() with retry = 0 on a fresh instance:
\* _download_file appends the local path of every link it is called with,
\* the collector appends the link to downloaded_files or failed_files
ForecastAfterRun(files_path, forecast_run, variable, links_, oks) ==
    [downloaded_files |-> [k \in 1..Len(ItemsWhere(links_, oks, TRUE)) |->
                              ItemsWhere(links_, oks, TRUE)[k][1]],
     failed_files |-> [k \in 1..Len(ItemsWhere(links_, oks, FALSE)) |->
                          ItemsWhere(links_, oks, FALSE)[k][1]],
     paths |-> [k \in 1..Len(links_) |->
                   ForecastLocalPath(files_path, forecast_run, variable,
                                     links_[k])]]

\* OSDownloader after download(check_for_existence=False) on a fresh
\* instance: downloaded_files holds the remote paths of the verified objects
OSAfterRun(remotes, oks) ==
    [downloaded_files |-> [k \in 1..Len(ItemsWhere(remotes, oks, TRUE)) |->
                              ItemsWhere(remotes, oks, TRUE)[k][1]],
     corrupted_files |-> [k \in 1..Len(ItemsWhere(remotes, oks, FALSE)) |->
                             ItemsWhere(remotes, oks, FALSE)[k][1]]]

\* _delete_files_safely: the paths handed to os.remove, in order
DeleteFilesSafely(files) == [k \in 1..Len(files) |-> NormPath(files[k])]

\* ForecastDownloader.delete
ForecastDeleteTargets(self) == DeleteFilesSafely(self.paths)

\* OSDownloader.delete
OSDeleteTargets(self) == DeleteFilesSafely(self.downloaded_files)

\* the k-th link of download_links
ForecastLinkOf(k) == <<"u", "/", "f">> \o NatStr(k)

\* the k-th selected remote object: under a prefix, or at the top level
RemoteOf(k) ==
    IF k % 2 = 1 THEN <<"p", "/", "f">> \o NatStr(k) ELSE <<"f">> \o NatStr(k)

FilesPathPool    == {<<".">>, <<"d">>}
SubdirPool       == {<<<<>>, <<>>>>, <<<<"r">>, <<"v">>>>, <<<<"r">>, <<>>>>}

\* download() followed by delete() on a fresh ForecastDownloader or
\* OSDownloader; oks[k] tells whether the transfer of item k succeeded
Delete(cls, files_path, sub, oks) ==
    /\ fop = "none"
    /\ fop' = "delete"
    /\ farg' = [cls |-> cls, files_path |-> files_path, sub |-> sub,
                oks |-> oks]
    /\ fout' =
         IF cls = "forecast"
         THEN LET links_ == [k \in 1..Len(oks) |-> ForecastLinkOf(k)]
                  self == ForecastAfterRun(files_path, sub[1], sub[2],
                                           links_, oks)
              IN  [targets |-> ForecastDeleteTargets(self),
                   succeeded |->
                       [k \in 1..Len(self.downloaded_files) |->
                           ForecastLocalPath(files_path, sub[1], sub[2],
                                             self.downloaded_files[k])],
                   failed |->
                       [k \in 1..Len(self.failed_files) |->
                           ForecastLocalPath(files_path, sub[1], sub[2],
                                             self.failed_files[k])]]
         ELSE LET remotes == [k \in 1..Len(oks) |-> RemoteOf(k)]
                  self == OSAfterRun(remotes, oks)
              IN  [targets |-> OSDeleteTargets(self),
                   succeeded |->
                       [k \in 1..Len(self.downloaded_files) |->
                           OSLocalPath(files_path, self.downloaded_files[k])],
                   failed |->
                       [k \in 1..Len(self.corrupted_files) |->
                           OSLocalPath(files_path, self.corrupted_files[k])]]
    /\ UNCHANGED <<fin, xvars>>

\* ---------------------------------------- from the selection to the pool
\* the directory ForecastDownloader lists: the folder of category r
CategoryUrl == <<"r", "/">>

\* ForecastDownloader.get_links after _simple_filename_filter: the links
\* and the advanced filter; the result is download_links
ForecastLinks(filtered_filenames, variable, additional_patterns) ==
    AdvancedFilenameFilter(
        [k \in 1..Len(filtered_filenames) |->
            UrlJoin(CategoryUrl, filtered_filenames[k])],
        variable, additional_patterns)

\* ForecastDownloader.download: one executor.submit for every entry of
\* download_links; the link each future was submitted with
SubmittedLinks(download_links) ==
    [k \in 1..Len(download_links) |-> download_links[k]]

\* names of a directory listing: tagged 1, tagged 02, no tag
ListedNamePool ==
    {<<"a", "_", "1", "_", "r", ".", "g">>,
     <<"a", "_", "0", "2", "_", "r", ".", "g">>,
     <<"a", "_", "r", ".", "g">>}

\* a listing names every file once
DistinctSeqs(S, n) ==
    {q \in SeqsUpTo(S, n) : \A j, k \in 1..Len(q) : j # k => q[j] # q[k]}

\* get_links followed by the submissions of download()
Submit(filtered_filenames, variable, additional_patterns) ==
    /\ fop = "none"
    /\ fop' = "submit"
    /\ farg' = [filtered_filenames |-> filtered_filenames,
                variable |-> variable,
                additional_patterns |-> additional_patterns]
    /\ fout' = LET download_links ==
                       ForecastLinks(filtered_filenames, variable,
                                     additional_patterns)
               IN  [download_links |-> download_links,
                    tasks |-> SubmittedLinks(download_links)]
    /\ UNCHANGED <<fin, xvars>>

\* ------------------------------------------- the steps of one transfer task
\* a task that never waits
ThrottleNever(delay) == <<>>

\* if self._delay > 0: time.sleep(self._delay)
Throttle(delay) == IF delay > 0 THEN <<"sleep">> ELSE <<>>

\* ForecastDownloader/HistoricalDownloader/MOSMIX_Downloader._download_file:
\* the steps of one call, for a local copy d and the outcome out of the
\* request; "transfer" is session.get, "write" the open() and the chunks
HttpFileSteps(delay, c, d, out) ==
    <<"begin">> \o
    IF c /\ d # "absent" THEN <<"return_true">>
    ELSE Throttle(delay) \o <<"transfer">> \o
         CASE out = "ok"      -> <<"write", "return_true">>
           [] out = "neterr"  -> <<"return_false">>
           [] out = "partial" -> <<"write", "return_false">>
           [] OTHER           -> <<"raise">>

\* OSDownloader._download_file: "transfer" is fget_object, "verify" the
\* _verify_file_integrity after it, "append_corrupted" the worker's own
\* corrupted_files.append
OSDownloadSteps(delay, c, d, out) ==
    <<"begin">> \o Throttle(delay) \o
    IF c /\ d # "absent" /\ VerifyFileIntegrity(d) THEN <<"return_true">>
    ELSE <<"transfer">> \o
         CASE out = "ok"       -> <<"write", "verify", "return_true">>
           [] out = "mismatch" ->
                <<"write", "verify", "append_corrupted", "return_false">>
           [] OTHER            -> <<"append_corrupted", "return_false">>

\* OSUploader._upload_file: "transfer" is fput_object, "verify" the
\* comparison of stat_object's etag with the local md5
OSUploadSteps(delay, c, d, out) ==
    <<"begin">> \o Throttle(delay) \o <<"transfer">> \o
    CASE out = "ok"       -> <<"write", "verify", "return_true">>
      [] out = "mismatch" ->
           <<"write", "verify", "append_corrupted", "return_false">>
      [] OTHER            -> <<"append_corrupted", "return_false">>

TaskSteps(cls, delay, c, d, out) ==
    CASE cls = "osdown" -> OSDownloadSteps(delay, c, d, out)
      [] cls = "osup"   -> OSUploadSteps(delay, c, d, out)
      [] OTHER          -> HttpFileSteps(delay, c, d, out)

\* the local copy after the steps of a task
CopyAfter(d, steps, out) ==
    IF \E k \in 1..Len(steps) : steps[k] = "write"
    THEN (IF out = "ok" THEN "good" ELSE "bad")
    ELSE d

\* download()/upload() for one item: the task, then the caller's "record"
\* of its result, then the next attempt of the retry loop while the task
\* returned False and outcomes are left (outs has 1 + retry entries at most);
\* ForecastDownloader also retries a link whose task raised
RECURSIVE ItemSteps(_, _, _, _, _)
ItemSteps(cls, delay, c, d, outs) ==
    IF outs = <<>> THEN <<>>
    ELSE LET steps == TaskSteps(cls, delay, c, d, Head(outs))
         IN  steps \o <<"record">> \o
             IF \/ steps[Len(steps)] = "return_false"
                \/ cls = "forecast" /\ steps[Len(steps)] = "raise"
             THEN ItemSteps(cls, delay, c, CopyAfter(d, steps, Head(outs)),
                            Tail(outs))
             ELSE <<>>

DelayPool == {0, 1}

\* the outcomes of the 1 + retry attempts an item can get
OutcomeSeqs(cls) ==
    IF cls \in OSVariants THEN {<<out>> : out \in OSOutcomes}
    ELSE SeqsUpTo(HttpOutcomes, 1 + MaxRetry) \ {<<>>}

\* one item handled by download()/upload()
Transfer(cls, delay, c, d, outs) ==
    /\ fop = "none"
    /\ fop' = "transfer"
    /\ farg' = [cls |-> cls, delay |-> delay, check_for_existence |-> c,
                local |-> d, outs |-> outs]
    /\ fout' = ItemSteps(cls, delay, c, d, outs)
    /\ UNCHANGED <<fin, xvars>>

\* ------------------------- HistoricalDownloader/MOSMIX_Downloader.download
\* list.remove(x): the list without its first x
RECURSIVE SeqRemove(_, _)
SeqRemove(l, x) ==
    IF l = <<>> THEN <<>>
    ELSE IF Head(l) = x THEN Tail(l)
    ELSE <<Head(l)>> \o SeqRemove(Tail(l), x)

\* x in list
SeqHas(l, x) == \E k \in 1..Len(l) : l[k] = x

\* the while loop of the retry logic for link, by the outcomes of its calls
\* of _download_file; an exception leaves the loop for the except branch
RECURSIVE SeqRetryLoop(_, _, _, _, _)
SeqRetryLoop(self, link, n_retry, r, outs) ==
    IF n_retry >= r \/ outs = <<>> THEN self
    ELSE CASE Head(outs) = "ok" ->
                [downloaded_files |-> Append(self.downloaded_files, link),
                 failed_files |-> SeqRemove(self.failed_files, link)]
           [] Head(outs) = "neterr" ->
                SeqRetryLoop(self, link, n_retry + 1, r, Tail(outs))
           [] OTHER ->
                IF SeqHas(self.failed_files, link) THEN self
                ELSE [self EXCEPT !.failed_files = Append(@, link)]

\* the body of the loop over download_links for one link
SeqLinkBody(self, link, r, outs) ==
    CASE Head(outs) = "ok" ->
            [self EXCEPT !.downloaded_files = Append(@, link)]
      [] Head(outs) = "neterr" ->
            LET failed == [self EXCEPT !.failed_files = Append(@, link)]
            IN  IF r > 0
                THEN SeqRetryLoop(failed, link, 0, r, Tail(outs))
                ELSE failed
      [] OTHER ->
            IF SeqHas(self.failed_files, link) THEN self
            ELSE [self EXCEPT !.failed_files = Append(@, link)]

\* download(): the loop over download_links; scripts[k] holds the outcomes
\* of the calls of _download_file for the k-th entry
RECURSIVE SeqDownloadLoop(_, _, _, _)
SeqDownloadLoop(self, links_, r, scripts) ==
    IF links_ = <<>> THEN self
    ELSE SeqDownloadLoop(SeqLinkBody(self, Head(links_), r, Head(scripts)),
                         Tail(links_), r, Tail(scripts))

\* the outcomes an entry can meet: request errors until a success, an
\* exception, or the last of its 1 + retry attempts
Scripts(r) ==
    {q \in SeqsUpTo({"ok", "neterr", "oserr"}, 1 + r) :
        /\ q # <<>>
        /\ \A k \in 1..(Len(q) - 1) : q[k] = "neterr"
        /\ q[Len(q)] = "neterr" => Len(q) = 1 + r}

\* download_links: two links, an entry may be repeated
LinkNames == {"L1", "L2"}

\* download() of a fresh HistoricalDownloader or MOSMIX_Downloader
SeqRun(links_, r, scripts) ==
    /\ fop = "none"
    /\ fop' = "seq_download"
    /\ farg' = [download_links |-> links_, retry |-> r, scripts |-> scripts]
    /\ fout' = SeqDownloadLoop([downloaded_files |-> <<>>,
                                failed_files |-> <<>>], links_, r, scripts)
    /\ UNCHANGED <<fin, xvars>>

\* ------------------------------------------- OSUploader._build_upload_list
\* a dict as a sequence of <<key, value>> items with distinct keys
DictHas(d, key) == \E k \in 1..Len(d) : d[k][1] = key

DictGet(d, key) == d[CHOOSE k \in 1..Len(d) : d[k][1] = key][2]

\* d[key] = value: the value is replaced, or the item is added at the end
DictPut(d, key, value) ==
    IF DictHas(d, key)
    THEN [k \in 1..Len(d) |-> IF d[k][1] = key THEN <<key, value>> ELSE d[k]]
    ELSE Append(d, <<key, value>>)

\* OSHandler._fetch_existing_files: objects are the <<object_name, etag>>
\* of list_objects, in listing order
RECURSIVE FetchExistingFiles(_, _)
FetchExistingFiles(objects, return_basename) ==
    IF objects = <<>> THEN <<>>
    ELSE LET obj  == objects[Len(objects)]
             name == IF return_basename THEN Basename(obj[1]) ELSE obj[1]
         IN  DictPut(FetchExistingFiles(SubSeq(objects, 1, Len(objects) - 1),
                                        return_basename),
                     name, obj[2])

\* os.path.relpath(path, start) for a path below start
RelPath(path, start) == SubSeq(path, Len(start) + 2, Len(path))

\* _build_upload_list: whether the file is skipped, and its remote path
BuildUploadEntry(files_path, local_path, local_hash, remote_prefix, remote_files) ==
    LET local_file_path == NormPath(local_path)
        name == Basename(local_file_path)
    IN  [skip |->
            /\ DictHas(remote_files, name)
            /\ VerifyFileIntegrityCall(local_hash, DictGet(remote_files, name),
                                       local_hash, "missing").ret,
         remote_path |->
            UrlJoin(remote_prefix, RelPath(local_file_path, files_path))]

\* local files below files_path "d": two of them share their basename
LocalFilePool == {<<"d", "/", "f">>, <<"d", "/", "s", "/", "f">>}

\* objects below the remote prefix "p/"
RemoteKeyPool ==
    {<<"p", "/", "f">>, <<"p", "/", "s", "/", "f">>, <<"p", "/", "g">>}

\* listings: every key at most once
Listings ==
    {q \in SeqsUpTo(RemoteKeyPool \X Digests, MaxFiles) :
        \A j, k \in 1..Len(q) : j # k => q[j][1] # q[k][1]}

\* upload(check_for_existence=True) up to the upload list, for one local file
BuildUpload(local_path, local_hash, objects) ==
    /\ fop = "none"
    /\ fop' = "build_upload"
    /\ farg' = [files_path |-> <<"d">>, local_path |-> local_path,
                local_hash |-> local_hash, remote_prefix |-> <<"p", "/">>,
                objects |-> objects]
    /\ fout' = BuildUploadEntry(<<"d">>, local_path, local_hash, <<"p", "/">>,
                                FetchExistingFiles(objects, TRUE))
    /\ UNCHANGED <<fin, xvars>>

UNext ==
    \/ \E local_path \in LocalFilePool, local_hash \in Digests,
          objects \in Listings : BuildUpload(local_path, local_hash, objects)
    \/ \E links_ \in SeqsUpTo(LinkNames, MaxLinks), r \in 0..MaxRetry :
          \E scripts \in [1..Len(links_) -> Scripts(r)] :
             SeqRun(links_, r, scripts)
    \/ \E cls \in Variants, delay \in DelayPool, c \in BOOLEAN,
          d \in {"absent", "good", "bad"} :
          \E outs \in OutcomeSeqs(cls) : Transfer(cls, delay, c, d, outs)
    \/ \E filtered_filenames \in DistinctSeqs(ListedNamePool, MaxFiles),
          variable \in VariablesPool, additional_patterns \in PatternsPool :
          Submit(filtered_filenames, variable, additional_patterns)
    \/ \E cls \in {"forecast", "osdown"}, files_path \in FilesPathPool,
          sub \in SubdirPool, oks \in SeqsUpTo(BOOLEAN, MaxLinks) :
          Delete(cls, files_path, sub, oks)
    \/ \E local_md5, remote_hash \in Digests \cup {"None"},
          file \in Digests \cup {"unreadable"},
          obj \in Digests \cup {"missing"} :
          VerifyIntegrity(local_md5, remote_hash, file, obj)
    \/ \E p \in TimestepPairs : ProcessTimestepsCall(p[1], p[2])
    \/ \E p \in TimestepPairs, listing \in {"empty", "files"} :
          GetLinks(p[1], p[2], listing)
    \/ \E p \in TimestepPairs : OSDownloadEntry(p[1], p[2])
    \/ \E filenames \in SeqsUpTo(ListingPool, MaxFiles),
          station_ids \in StationIdsPool, a \in HistoricalArgsPool :
          HistoricalLinks(filenames, station_ids, a)
    \/ \E caller \in Callers,
          filenames \in SeqsUpTo(TimestepListingPool, MaxFiles),
          include_pattern \in CallerIncludePool, p \in RangePool :
          Select(caller, filenames, include_pattern, p)

UtilSpec == UInit /\ [][UNext]_vars

\* ================================================================ claims
Done == pc = "done"

\* the attempts of item i in the current call after its first one
RetrySucceeded(i) == \E k \in 2..Len(hist[i]) : hist[i][k]

AllAttemptsFailed(i) == \A k \in 1..Len(hist[i]) : ~hist[i][k]

C2_ResultListsDisjoint ==
    Done =>
        \A i \in Items :
            /\ ~(InList(downloaded_files, i) /\ InList(corrupted_files, i))
            /\ InList(failed_files, i) =>
                  ~InList(downloaded_files, i) /\ ~InList(corrupted_files, i)

\* C3: a fault confined to one item never makes download()/upload() raise:
\* the call returns normally, every selected item has been attempted (or
\* resolved as already present), and an item whose last attempt failed is
\* in failed_files or corrupted_files.
C3_ItemFaultNeverAborts ==
    Done =>
        /\ ~raised
        /\ \A i \in SeqSet(links) :
              /\ Len(hist[i]) >= 1 \/ i \in skipped
              /\ (Len(hist[i]) >= 1 /\ ~hist[i][Len(hist[i])]) =>
                    InList(failed_files, i) \/ InList(corrupted_files, i)

\* a destination that existed with a wrong digest when the call started has
\* been transferred again when the call ends
RetransferredIfMismatch ==
    (Done /\ ~raised) =>
        \A i \in SeqSet(links) : startDest[i] = "bad" => xfers[i] >= 1

Entries(obj) == {StringToList(obj)[k] : k \in 1..Len(StringToList(obj))}

\* the five checks of one filename f under the arguments a
PassesChecks(f, a) ==
    /\ StartsWith(f, a.prefix)
    /\ EndsWith(f, a.suffix)
    /\ a.use_all_for_include =>
          \A p \in Entries(a.include_pattern) : Contains(f, p)
    /\ ~a.use_all_for_include =>
          \E p \in Entries(a.include_pattern) : Contains(f, p)
    /\ a.mock_time_steps
          \/ \E k \in 1..Len(a.timesteps) : Contains(f, a.timesteps[k])
    /\ \A p \in Entries(a.exclude_pattern) : ~Contains(f, p)

\* lower-cased name of the parent directory
Category(f) == Lower(Basename(Dirname(f)))

NoBypassList == Entries(farg.skip_time_step_filtering_variables) = {}

\* the filenames as the filter sees them: os.path.normpath of each input
\* when norm_path is set, the inputs themselves otherwise
SeenNames ==
    IF farg.norm_path THEN [k \in 1..Len(fin) |-> NormPath(fin[k])] ELSE fin

\* C6 as stated: without a bypass list _simple_filename_filter returns exactly
\* the input filenames, in input order, that start with prefix, end with
\* suffix, pass the include check (all patterns or any pattern), contain a
\* timestep token (unless mock_time_steps) and contain no exclude pattern.
C6_ReturnsMatchingInputs ==
    (fop = "simple" /\ NoBypassList) =>
        fout = SelectSeq(fin, LAMBDA f : PassesChecks(f, farg))

\* C6 amended: the same, for the filenames as the filter sees them: with
\* norm_path=True (the default) the checks are applied to os.path.normpath of
\* each input filename and the normalised names are returned; with
\* norm_path=False these are the input filenames.
C6_ReturnsMatchingSeenNames ==
    (fop = "simple" /\ NoBypassList) =>
        fout = SelectSeq(SeenNames, LAMBDA f : PassesChecks(f, farg))

\* C6 witness: a call with norm_path=True, an exclude list and timestep
\* tokens that drops one input and returns another one rewritten by normpath.
C6_Witness ==
    /\ fop = "simple" /\ NoBypassList
    /\ farg.norm_path /\ ~farg.mock_time_steps
    /\ Entries(farg.exclude_pattern) # {}
    /\ Len(fout) = 1 /\ Len(fin) = 2
    /\ fout[1] \notin {fin[1], fin[2]}

TagAllowed(f, patterns) ==
    /\ Category(f) \in DOMAIN PatternsDict(patterns)
    /\ TagIn(Lower(Basename(f)), Category(f),
             PatternsDict(patterns)[Category(f)])

HasEntry(f, patterns) == Category(f) \in DOMAIN PatternsDict(patterns)

\* C8: with only a pattern map, _advanced_filename_filter keeps a file whose
\* category has an entry only if its parsed number is in the entry's set, and
\* keeps every file whose category has no entry.
C8_PatternsOnly ==
    (fop = "advanced" /\ farg.variables.none /\ ~farg.patterns.none) =>
        fout = SelectSeq(fin, LAMBDA f :
                  HasEntry(f, farg.patterns) => TagAllowed(f, farg.patterns))

\* C9: with an allowlist and a pattern map (also one with no entries),
\* _advanced_filename_filter keeps a file iff its category is in the allowlist
\* and either the category has no entry or its parsed number is in the
\* entry's set.
C9_AllowlistAndPatterns ==
    (fop = "advanced" /\ ~farg.variables.none /\ ~farg.patterns.none) =>
        fout = SelectSeq(fin, LAMBDA f :
                  /\ Category(f) \in VariablesSet(farg.variables)
                  /\ HasEntry(f, farg.patterns) =>
                        TagAllowed(f, farg.patterns))

\* C10: _advanced_filename_filter with an empty allowlist and an empty
\* pattern map, as with both arguments omitted, returns its input unchanged.
C10_EmptyFiltersIdentity ==
    (/\ fop = "advanced"
     /\ farg.variables.val = <<>> /\ farg.patterns.val = <<>>
     /\ farg.variables.none = farg.patterns.none) =>
        fout = fin

\* the digest a side resolves to: the supplied one, else the one computed
\* or fetched; "raise" when that fails
ResolvedLocal == IF farg.local_md5 # "None" THEN farg.local_md5
                 ELSE IF farg.file = "unreadable" THEN "raise" ELSE farg.file

ResolvedRemote == IF farg.remote_hash # "None" THEN farg.remote_hash
                  ELSE IF farg.obj = "missing" THEN "raise" ELSE farg.obj

\* C11: _verify_file_integrity returns True exactly when the local digest
\* (supplied or computed) equals the remote digest (supplied or fetched), and
\* returns False without raising when a digest cannot be computed or fetched.
C11_VerifyTrueIffDigestsEqual ==
    fop = "verify" =>
        /\ ~fout.raised
        /\ fout.ret <=> /\ ResolvedLocal # "raise"
                        /\ ResolvedRemote # "raise"
                        /\ ResolvedLocal = ResolvedRemote

\* C11 witness: neither digest is supplied, the local file is readable and
\* the remote key does not exist; the call returned False.
C11_Witness ==
    /\ fop = "verify"
    /\ farg.local_md5 = "None" /\ farg.remote_hash = "None"
    /\ farg.file \in Digests /\ farg.obj = "missing"
    /\ ~fout.ret /\ ~fout.raised

\* every attempt on item i in this call failed before any byte reached the
\* destination: the transfer itself raised
TransportFailed(i) ==
    /\ hist[i] # <<>> /\ AllAttemptsFailed(i)
    /\ startDest[i] = "absent" /\ dest[i] = "absent"

\* C12: in every transfer variant an item whose transfer raised a network or
\* transport error is recorded in failed_files and not in corrupted_files
\* when the call ends, and the call itself does not raise.
C12_TransportErrorRecordedFailed ==
    Done =>
        \A i \in SeqSet(links) :
            TransportFailed(i) =>
                /\ ~raised
                /\ InList(failed_files, i)
                /\ ~InList(corrupted_files, i)

\* C13: in OSDownloader and OSUploader (first call on a new instance) an item
\* that was transferred and whose destination then holds content with another
\* digest ends the call in corrupted_files and not in the succeeded list, and
\* it was transferred exactly once.
C13_MismatchEndsCorrupted ==
    (variant \in OSVariants /\ Done /\ runNo = 1) =>
        \A i \in SeqSet(links) :
            (xfers[i] >= 1 /\ dest[i] = "bad") =>
                /\ InList(corrupted_files, i)
                /\ ~InList(downloaded_files, i)
                /\ xfers[i] = 1

\* C13 witness: constructed with retry > 0, one item was transferred with a
\* digest mismatch and another one was transferred and verified.
C13_Witness ==
    /\ variant \in OSVariants /\ Done /\ runNo = 1 /\ retry > 0
    /\ \E i, j \in SeqSet(links) :
          /\ startDest[i] = "absent" /\ dest[i] = "bad" /\ xfers[i] = 1
          /\ InList(corrupted_files, i)
          /\ InList(downloaded_files, j)

\* C14: with retry = 0 (first call on a new ForecastDownloader,
\* HistoricalDownloader or MOSMIX_Downloader) every selected item gets exactly
\* one attempt, failed_files holds exactly the items whose attempt failed, and
\* downloaded_files holds none of them.
C14_NoRetryOneAttempt ==
    (variant \in HttpVariants /\ Done /\ runNo = 1 /\ retry = 0) =>
        \A i \in Items :
            IF i \in SeqSet(links)
            THEN /\ Len(hist[i]) = 1
                 /\ InList(failed_files, i) <=> ~hist[i][1]
                 /\ ~hist[i][1] => ~InList(downloaded_files, i)
            ELSE ~InList(failed_files, i)

\* C14 witness: retry = 0, one item failed its only attempt and is in
\* failed_files, another one succeeded and is in downloaded_files.
C14_Witness ==
    /\ variant \in HttpVariants /\ Done /\ runNo = 1 /\ retry = 0
    /\ \E i, j \in SeqSet(links) :
          /\ hist[i] = <<FALSE>> /\ InList(failed_files, i)
          /\ hist[j] = <<TRUE>> /\ InList(downloaded_files, j)
          /\ ~InList(failed_files, j)

\* C15: the succeeded, failed and corrupted lists are empty when a call of
\* download()/upload() starts, so when it ends they hold only items handled
\* in that call, also when the same instance is run several times.
C15_ListsHoldOnlyThisRun ==
    Done =>
        \A i \in Items :
            (\/ InList(downloaded_files, i)
             \/ InList(failed_files, i)
             \/ InList(corrupted_files, i)) =>
                hist[i] # <<>> \/ i \in skipped

\* C16: in OSDownloader.download, and OSUploader.upload with
\* check_for_existence=True, every selected item that the scheduling step
\* finds present with a matching digest is skipped and is recorded in the
\* succeeded list of that call.
C16_SkippedRecordedSucceeded ==
    (variant \in OSVariants /\ Done /\ ~raised) =>
        \A i \in skipped : InList(downloaded_files, i)

ResultLists == <<downloaded_files, failed_files, corrupted_files>>

BoundVal(x, default) == IF x.kind = "none" THEN default ELSE x.val

MinVal == BoundVal(farg.min_timestep, DefaultMinTimestep)

MaxVal == BoundVal(farg.max_timestep, DefaultMaxTimestep)

IntegerBounds ==
    /\ fop = "timesteps"
    /\ farg.min_timestep.kind \in {"none", "int"}
    /\ farg.max_timestep.kind \in {"none", "int"}

\* an underscore, exactly three digits, an underscore
ThreeDigitToken(tok) ==
    /\ Len(tok) = 5
    /\ tok[1] = "_" /\ tok[5] = "_"
    /\ \A k \in 2..4 : IsDigit(tok[k])

\* max - min + 1 three-digit tokens that count up from min
TokensOfRange(ret, lo, hi) ==
    /\ Len(ret) = hi - lo + 1
    /\ \A k \in 1..Len(ret) :
          /\ ThreeDigitToken(ret[k])
          /\ ParseInt(SubSeq(ret[k], 2, 4)) = lo + k - 1

DefaultTokens ==
    (farg.min_timestep.kind = "none" /\ farg.max_timestep.kind = "none") =>
        /\ Len(fout.ret) = 49
        /\ fout.ret[1] = <<"_", "0", "0", "0", "_">>
        /\ fout.ret[49] = <<"_", "0", "4", "8", "_">>

\* C18 (as stated): for all integers min <= max, _process_timesteps(min, max)
\* returns max - min + 1 tokens in ascending order, each an underscore, exactly
\* three digits and an underscore; with both bounds omitted it returns the 49
\* tokens _000_ ... _048_.
C18_ThreeDigitTokensAllIntegers ==
    (IntegerBounds /\ MinVal <= MaxVal) =>
        /\ fout.error = "none"
        /\ TokensOfRange(fout.ret, MinVal, MaxVal)
        /\ DefaultTokens

\* C18 (amended): the same for 0 <= min <= max <= 999; outside that range a
\* token carries a sign or more than three digits.
C18_ThreeDigitTokensUpTo999 ==
    (IntegerBounds /\ 0 <= MinVal /\ MinVal <= MaxVal /\ MaxVal <= 999) =>
        /\ fout.error = "none"
        /\ TokensOfRange(fout.ret, MinVal, MaxVal)
        /\ DefaultTokens

\* C18 witness: the call with min = 998, max = 999 has returned its two
\* tokens.
C18_Witness ==
    /\ IntegerBounds
    /\ MinVal = 998 /\ MaxVal = 999
    /\ fout.ret = <<<<"_", "9", "9", "8", "_">>, <<"_", "9", "9", "9", "_">>>>

\* a bound that int() rejects
NotCoercible(x) == x.kind # "none" /\ IntOf(x).error # "none"

\* C19: a timestep bound that cannot be coerced to an integer, passed to
\* ForecastDownloader.get_links or OSDownloader.download, is rejected with an
\* error before any network request (directory listing, bucket check, object
\* listing) is made.
C19_BadBoundRejectedBeforeRequests ==
    (/\ fop \in {"get_links", "os_download"}
     /\ NotCoercible(farg.min_timestep) \/ NotCoercible(farg.max_timestep)) =>
        /\ fout.error # "none"
        /\ fout.requests = <<>>

\* C20: with empty prefix and suffix, no include patterns, no exclude
\* patterns, no timestep tokens and no bypass list, _simple_filename_filter
\* returns its input list unchanged for every input list, in the all mode and
\* in the any mode of the include check.
C20_EmptySimpleFilterIdentity ==
    (/\ fop = "simple"
     /\ farg.prefix = <<>> /\ farg.suffix = <<>>
     /\ Entries(farg.include_pattern) = {}
     /\ Entries(farg.exclude_pattern) = {}
     /\ farg.timesteps = <<>>
     /\ NoBypassList) =>
        fout = fin

\* C21: HistoricalDownloader.get_links called with include_pattern=None and
\* an empty station_ids list applies no inclusion filtering: every listed
\* filename that satisfies prefix, suffix and the exclude patterns is returned
\* as a link.
C21_NoIncludeMeansNoInclusionFilter ==
    (/\ fop = "historical_links"
     /\ farg.include_pattern.kind = "none"
     /\ farg.station_ids = <<>>) =>
        LET Ok(f) == /\ StartsWith(f, farg.prefix)
                     /\ EndsWith(f, farg.suffix)
                     /\ \A p \in Entries(farg.exclude_pattern) : ~Contains(f, p)
            kept == SelectSeq(farg.filenames, Ok)
        IN  fout = [k \in 1..Len(kept) |-> UrlJoin(BaseUrl, kept[k])]

\* the tokens of the range given to the call
RangeTokens == ProcessTimesteps(farg.min_timestep, farg.max_timestep).ret

\* C22: when a caller supplies include patterns together with a timestep
\* range (get_links / download / upload), the timestep tokens are added to the
\* caller's patterns and do not replace them: the selection succeeds, and
\* every selected name contains every caller-supplied include pattern and a
\* token of the range.
C22_PatternsAndTimestepsBothApplied ==
    (/\ fop = "select"
     /\ Entries(farg.include_pattern) # {}
     /\ ~NotCoercible(farg.min_timestep) /\ ~NotCoercible(farg.max_timestep)) =>
        /\ fout.error = "none"
        /\ \A k \in 1..Len(fout.ret) :
              /\ \A p \in Entries(farg.include_pattern) : Contains(fout.ret[k], p)
              /\ \E m \in 1..Len(RangeTokens) :
                    Contains(fout.ret[k], RangeTokens[m])

\* the other case of a letter the filenames use
SwapCaseChar(c) ==
    CASE c = "r" -> "R" [] c = "R" -> "r"
      [] c = "t" -> "T" [] c = "T" -> "t"
      [] c = "a" -> "A" [] c = "A" -> "a"
      [] OTHER   -> c

SwapCase(s) == [k \in 1..Len(s) |-> SwapCaseChar(s[k])]

\* f with the letter case of its parent-directory name changed
SwapDirCase(f) ==
    LET d == Dirname(f)
        n == Len(Basename(d))
    IN  [k \in 1..Len(f) |->
            IF Len(d) - n < k /\ k <= Len(d) THEN SwapCaseChar(f[k]) ELSE f[k]]

\* an allowlist or bypass list with the case of the entries at S changed
SwapEntriesAt(entries, S) ==
    [k \in 1..Len(entries) |->
        IF k \in S THEN SwapCase(entries[k]) ELSE entries[k]]

\* a pattern map with the case of the keys at S changed
SwapKeysAt(items, S) ==
    [k \in 1..Len(items) |->
        IF k \in S THEN <<SwapCase(items[k][1]), items[k][2]>> ELSE items[k]]

\* how often the advanced filter returns the file f
AdvancedPicks(f, variables, patterns) ==
    Len(AdvancedFilenameFilter(<<f>>, variables, patterns))

\* how often the simple filter returns the file f
SimplePicks(f, a) == Len(SimpleFilenameFilter(<<f>>, a))

\* whether the bypass step of the simple filter appends the file f
BypassPicks(f, a) ==
    Len(BypassFilenames(NormalizedFilenames(<<f>>, a.norm_path),
                        StringToList(a.skip_time_step_filtering_variables)))

\* the advanced filter selects the same files whatever the case of the
\* allowlist entries, the pattern-map keys and the directory names
AdvancedCaseInsensitive ==
    fop = "advanced" =>
        /\ \A S \in SUBSET (1..Len(farg.variables.val)),
              K \in SUBSET (1..Len(farg.patterns.val)) :
              AdvancedFilenameFilter(
                  fin,
                  [farg.variables EXCEPT !.val = SwapEntriesAt(@, S)],
                  [farg.patterns EXCEPT !.val = SwapKeysAt(@, K)]) = fout
        /\ \A k \in 1..Len(fin) :
              AdvancedPicks(SwapDirCase(fin[k]), farg.variables, farg.patterns)
                  = AdvancedPicks(fin[k], farg.variables, farg.patterns)

\* the simple filter returns the same list whatever the case of the bypass
\* entries
BypassEntriesCaseInsensitive ==
    (fop = "simple" /\ farg.skip_time_step_filtering_variables.kind = "list") =>
        \A S \in SUBSET (1..Len(farg.skip_time_step_filtering_variables.val)) :
            SimpleFilenameFilter(
                fin,
                [farg EXCEPT !.skip_time_step_filtering_variables.val =
                                SwapEntriesAt(@, S)]) = fout

\* C23 (as stated): category matching is case-insensitive in both filter
\* stages: changing the letter case of a file's parent-directory name, or of
\* an entry in the allowlist, the pattern-map keys or the bypass list, never
\* changes which files are selected.
C23_CaseNeverChangesSelection ==
    /\ AdvancedCaseInsensitive
    /\ BypassEntriesCaseInsensitive
    /\ fop = "simple" =>
          \A k \in 1..Len(fin) :
              SimplePicks(SwapDirCase(fin[k]), farg) = SimplePicks(fin[k], farg)

\* C23 (amended): the category comparisons are case-insensitive: the advanced
\* filter selects the same files, and the simple filter appends the same
\* bypass files, whatever the letter case of the parent-directory names, the
\* allowlist entries, the pattern-map keys and the bypass entries. The prefix,
\* include and exclude checks of the simple filter read the whole path
\* case-sensitively.
C23_CategoryChecksIgnoreCase ==
    /\ AdvancedCaseInsensitive
    /\ BypassEntriesCaseInsensitive
    /\ fop = "simple" =>
          \A k \in 1..Len(fin) :
              BypassPicks(SwapDirCase(fin[k]), farg) = BypassPicks(fin[k], farg)

\* C23 witness: the allowlist entries "R" and "t" select a file of directory
\* "r" and a file of directory "T".
C23_Witness ==
    /\ fop = "advanced"
    /\ farg.variables.val = << <<"R">>, <<"t">> >>
    /\ farg.patterns.none
    /\ Len(fin) = 2 /\ Category(fin[1]) = <<"r">> /\ Category(fin[2]) = <<"t">>
    /\ fin[1][1] = "r" /\ fin[2][1] = "T"
    /\ fout = fin

\* the tasks of the pool that a worker thread is executing
Running == {k \in 1..Len(task) : task[k] = "running"}

\* C24: during the parallel phase of download()/upload() at most n_jobs
\* transfers are in flight at any moment, and with n_jobs = 1 the transfers
\* run strictly one after another: a task runs only when every task submitted
\* before it has finished.
C24_AtMostNJobsInFlight ==
    /\ Cardinality(Running) <= n_jobs
    /\ n_jobs = 1 =>
          \A k \in Running : \A j \in 1..(k - 1) :
              task[j] \in {"true", "false", "raise", "recorded"}

\* C24 witness: n_jobs = 2 and two transfers are in flight.
C24_Witness ==
    /\ pc = "inflight" /\ n_jobs = 2
    /\ Cardinality(Running) = 2

\* C25: in ForecastDownloader.download no retry attempt starts before every
\* first-pass task of the worker pool has finished and been collected, and a
\* retry attempt is the only transfer in flight, for every n_jobs.
C25_RetryAfterPoolJoined ==
    [][(/\ variant = "forecast"
        /\ \E i \in Items : Len(hist[i]) >= 1 /\ Len(hist'[i]) > Len(hist[i])) =>
            /\ \A k \in 1..Len(task) : task[k] = "recorded"
            /\ Running = {}
            /\ Cardinality({i \in Items : hist'[i] # hist[i]}) = 1]_vars

\* C25 witness: with n_jobs = 2 and two failed links, the first link has
\* had its retry and the second is still waiting for its own.
C25_Witness ==
    /\ variant = "forecast" /\ n_jobs = 2 /\ pc = "retrying"
    /\ Len(links) = 2
    /\ Len(hist[links[1]]) = 2 /\ Len(hist[links[2]]) = 1
    /\ ~hist[links[2]][1]

\* C26: under every interleaving of the OS worker threads, once the pool has
\* joined each submitted item is recorded exactly once across the result
\* lists of the first call: no completion is lost and no item is twice in
\* a list.
C26_EachOutcomeRecordedOnce ==
    (variant \in OSVariants /\ runNo = 1 /\ Done /\ ~raised) =>
        \A k \in 1..Len(work) :
            downloaded_files[work[k]] + failed_files[work[k]]
                + corrupted_files[work[k]] = 1

\* the paths in a list of paths
PathSet(q) == {q[k] : k \in 1..Len(q)}

\* C27: delete() after a run targets exactly the local files of the items in
\* the succeeded list of that run: the local file of every succeeded item
\* and never the local path of an item that ended failed or corrupted.
C27_DeleteTargetsSucceededOnly ==
    fop = "delete" =>
        /\ PathSet(fout.targets) = PathSet(fout.succeeded)
        /\ PathSet(fout.targets) \cap PathSet(fout.failed) = {}

\* C28: every selected file is handed to exactly one transfer task of the
\* parallel phase, also when download_links lists the same link more than
\* once, so no two tasks of the pool transfer the same file to the same
\* destination.
C28_OneTaskPerSelectedFile ==
    fop = "submit" =>
        \A j, k \in 1..Len(fout.tasks) : j # k => fout.tasks[j] # fout.tasks[k]

\* C29: OSDownloader and OSUploader constructed with retry = r > 0 retry an
\* item whose transfer failed: when the first call ends, such an item has had
\* at least one further attempt, and r further attempts if none succeeded.
C29_OSFailedItemsRetried ==
    (variant \in OSVariants /\ retry > 0 /\ runNo = 1 /\ Done /\ ~raised) =>
        \A i \in Items :
            (hist[i] # <<>> /\ ~hist[i][1]) =>
                /\ Len(hist[i]) >= 2
                /\ AllAttemptsFailed(i) => Len(hist[i]) = 1 + retry

\* only an allowlist was supplied to _advanced_filename_filter
OnlyAllowlist == fop = "advanced" /\ farg.patterns.none /\ ~farg.variables.none

\* the name of the directory that holds the file
ParentName(f) == Basename(Dirname(f))

\* C30 as stated: with only an allowlist supplied, _advanced_filename_filter
\* returns exactly the input files whose parent-directory name is an entry
\* of the allowlist, in input order.
C30_AllowlistKeepsListedParents ==
    OnlyAllowlist =>
        fout = SelectSeq(fin, LAMBDA f :
                   \E k \in 1..Len(farg.variables.val) :
                       ParentName(f) = farg.variables.val[k])

\* C30 amended: with only an allowlist supplied, _advanced_filename_filter
\* returns exactly the input files whose parent-directory name equals an
\* entry of the allowlist when the case of letters is ignored, in input
\* order.
C30_AllowlistKeepsListedParentsAnyCase ==
    OnlyAllowlist =>
        fout = SelectSeq(fin, LAMBDA f :
                   \E k \in 1..Len(farg.variables.val) :
                       Lower(ParentName(f)) = Lower(farg.variables.val[k]))

\* C30 witness: the allowlist ["r"] drops the file of directory T and keeps
\* the file of directory r that follows it.
C30_Witness ==
    /\ OnlyAllowlist
    /\ farg.variables.val = <<<<"r">>>>
    /\ Len(fin) = 2
    /\ ParentName(fin[1]) = <<"T">> /\ ParentName(fin[2]) = <<"r">>
    /\ fout = <<fin[2]>>

\* the steps of fout between step j and step k belong to one task
SameTask(j, k) == \A m \in (j + 1)..k : fout[m] # "begin"

\* step k of fout is preceded in its own task by a step named name
PrecededInTask(k, name) ==
    \E j \in 1..(k - 1) : fout[j] = name /\ SameTask(j, k)

\* C31: with delay > 0 every network transfer attempt, first pass and retry,
\* is preceded within its task by a wait; the integrity check of a task
\* comes after its transfer; and the outcome of a task is recorded only
\* after its transfer and its integrity check.
C31_WaitTransferVerifyRecord ==
    (fop = "transfer" /\ farg.delay > 0) =>
        \A k \in 1..Len(fout) :
            /\ fout[k] = "transfer" => PrecededInTask(k, "sleep")
            /\ fout[k] = "verify" => PrecededInTask(k, "transfer")
            /\ fout[k] \in {"record", "append_corrupted"} =>
                  ~\E m \in (k + 1)..Len(fout) :
                       fout[m] \in {"transfer", "verify"} /\ SameTask(k, m)

\* C31 witness: with delay > 0 a ForecastDownloader link fails once and is
\* retried: two transfers, each after its own wait.
C31_Witness ==
    /\ fop = "transfer" /\ farg.delay > 0 /\ farg.cls = "forecast"
    /\ Cardinality({k \in 1..Len(fout) : fout[k] = "transfer"}) = 2
    /\ Cardinality({k \in 1..Len(fout) : fout[k] = "sleep"}) = 2

\* C32: in every call of download() of the HTTP downloaders, also a second
\* call on the same instance, each item is attempted at most 1 + retry times
\* and no attempt is made for an item after one of its attempts in that call
\* has succeeded.
C32_AttemptsBoundedNoneAfterSuccess ==
    variant \in HttpVariants =>
        \A i \in Items :
            /\ Len(hist[i]) <= 1 + retry
            /\ \A k \in 1..(Len(hist[i]) - 1) : ~hist[i][k]

\* C33: OSDownloader.download skips a locally existing file only when
\* check_for_existence is True; with check_for_existence=False every
\* selected remote file is transferred.
C33_OSSkipOnlyWhenAsked ==
    variant = "osdown" =>
        /\ skipped # {} => cfe
        /\ (Done /\ ~raised /\ ~cfe) =>
              \A i \in SeqSet(links) : xfers[i] >= 1

\* C34: when the destination of an item cannot be opened for writing during
\* ForecastDownloader.download, the error of its task is propagated to the
\* caller and the run is aborted: the step that takes the raised result of
\* the task ends the call by raising.
C34_OpenFailureAbortsRun ==
    [][(/\ variant = "forecast"
        /\ \E k \in 1..Len(task) :
              task[k] = "raise" /\ task'[k] = "recorded") =>
            (raised' /\ pc' = "done")]_vars

\* the number of entries of q equal to x
CountOf(q, x) == Cardinality({k \in 1..Len(q) : q[k] = x})

\* C35: after download() on a fresh HistoricalDownloader or
\* MOSMIX_Downloader every entry of download_links is accounted for exactly
\* once: a link is in downloaded_files and failed_files together as often as
\* it is in download_links, so that len(downloaded_files) +
\* len(failed_files) = len(download_links), for every sequence of attempt
\* outcomes (success, request error, unexpected exception).
C35_EveryEntryAccountedOnce ==
    fop = "seq_download" =>
        /\ \A x \in LinkNames :
              CountOf(fout.downloaded_files, x) + CountOf(fout.failed_files, x)
                  = CountOf(farg.download_links, x)
        /\ Len(fout.downloaded_files) + Len(fout.failed_files)
              = Len(farg.download_links)

\* C36: every filename returned by _simple_filename_filter starts with
\* prefix and ends with suffix, for every input list and every bypass list.
C36_ResultHasPrefixAndSuffix ==
    fop = "simple" =>
        \A k \in 1..Len(fout) :
            StartsWith(fout[k], farg.prefix) /\ EndsWith(fout[k], farg.suffix)

\* C37: the output of _advanced_filename_filter is an order-preserving
\* sublist of its input: only input filenames, in input order, none more
\* often than in the input.
C37_AdvancedResultIsSublist ==
    fop = "advanced" =>
        \E idx \in [1..Len(fout) -> 1..Len(fin)] :
            /\ \A k \in 1..Len(fout) : fout[k] = fin[idx[k]]
            /\ \A j, k \in 1..Len(fout) : j < k => idx[j] < idx[k]

\* C38: OSUploader.upload with check_for_existence=True skips a local file
\* only if the remote object stored under the file's own remote key
\* (remote_prefix joined with its path relative to files_path) has an ETag
\* equal to the file's digest; an object with the same basename under
\* another key never causes a skip.
C38_SkipOnlyForOwnKey ==
    (fop = "build_upload" /\ fout.skip) =>
        \E k \in 1..Len(farg.objects) :
            /\ farg.objects[k][1] = fout.remote_path
            /\ farg.objects[k][2] = farg.local_hash

====
